---- MODULE Spec2Model ----
(***************************************************************************)
(* Model of the news deduplication and notification-gate core of the      *)
(* portfolio news monitor (services/news_deduplicator.py,                  *)
(* services/ai_analyzer.py, config/settings.py), of the macro gate         *)
(* (services/correlation_analyzer.py) and of the monitoring cycle that     *)
(* calls them (main.py), of the digest order                               *)
(* (services/notification_service.py), of the broker rating scorers        *)
(* (services/broker_upgrades_service.py) and of the cached news analysis   *)
(* (services/ai_analyzer.py).                                              *)
(*                                                                         *)
(* Text is modelled at character level: a Python str is a sequence of      *)
(* one-character strings, so that lowercasing, punctuation stripping,      *)
(* whitespace splitting, sorting and substring search are computed the     *)
(* way the code computes them.  A Python dict is a function whose DOMAIN   *)
(* is the set of keys present, so that d.get(k, default) and `k in d`      *)
(* are decided by the keys an item really carries.                         *)
(***************************************************************************)
EXTENDS Integers, Sequences, FiniteSets

VARIABLES
    op,                \* name of the last call made
    title1, title2,    \* arguments of _calculate_similarity
    sim_result,        \* its return value, a fraction <<numerator, denominator>>
    news_items,        \* the list of news items (dicts) handed to a call,
                       \* as the last call left it
    passed,            \* the list as it was when handed to the last call
    seen_groups,       \* the groups the last call built, as positions of passed
    returned,          \* return value of the last deduplicate call
    grouped,           \* return value of the last group_by_symbol call
    impact_threshold,  \* settings.impact_threshold
    analysis,          \* argument of should_notify and should_notify_macro
    notify,            \* return value of should_notify
    macro_notify,      \* return value of should_notify_macro
    high_impact_macro, \* the macro events of a cycle, each with the analysis
                       \* analyze_macro_impact returns for it
    analyzed_macro_events, \* the macro events main.py hands to the notifier
    all_alerts,        \* the items handed to format_notification_email
    html,              \* the item blocks of the email it builds, in order
    rating,            \* a rating change as the data provider delivers it
    broker,            \* the analyst company of a rating or target change
    is_portfolio,      \* whether its symbol is in the user's portfolio
    action_type,       \* return value of _determine_action_type
    change_pct,        \* the implied move of a price target, in percent
    score,             \* return value of the scorers, in tenths
    news_item,         \* argument of analyze_news_impact
    redis_client,      \* self.redis_client: None or a client
    cache,             \* what the cache holds: key -> stored text
    ai_response,       \* what the AI call does when it is made
    ai_called,         \* whether the call made the AI request
    raised,            \* whether the call raised
    analysis_result,   \* its return value
    responses,         \* what the AI returns for the request made for item i
    tasks,             \* the analysis tasks of batch_analyze_async: where each
                       \* one is and what it returned
    results,           \* return value of batch_analyze / batch_analyze_async
    cache_at_call,     \* what the cache held when the batch call was made
    user_table,        \* the rows of the users table
    users,             \* the active users run_monitoring_cycle loops over
    cycle,             \* where run_monitoring_cycle is: idle, loop, closed
    cursor,            \* position in users of the next user of the loop
    db_open,           \* whether the database session of the cycle is open
    processed,         \* ids of the users process_user_portfolio was called for
    outcome,           \* what the last process_user_portfolio call did
    sent,              \* the send_email calls of the cycle
    notifications,     \* the rows of the notifications table
    api_news,          \* the items of the provider's response to a news request
    fetched,           \* what the last fetch call returned, or that it raised
    analyst_data,      \* what get_price_targets returns, by symbol
    ratings_cache,     \* the changes cached under the key of the hour
    rating_calls       \* the rating feed calls of the hour, with what each
                       \* returned

similarityVars == <<title1, title2, sim_result>>
dedupVars == <<news_items, passed, seen_groups, returned, grouped>>
gateVars == <<impact_threshold, analysis, notify>>
macroVars == <<macro_notify, high_impact_macro, analyzed_macro_events>>

\* the variables of the components added after the deduplicator and the
\* company-news gate
digestVars == <<all_alerts, html>>

brokerVars == <<rating, broker, is_portfolio, action_type, change_pct, score>>

analyzerVars == <<news_item, redis_client, cache, ai_response, ai_called, raised,
                  analysis_result>>

laterVars == <<macroVars, digestVars, brokerVars, analyzerVars>>

\* the variables of the batch analysis, of the news fetch, of the rating
\* feed and of the monitoring cycle
batchVars == <<responses, tasks, results, cache_at_call>>

cycleVars == <<user_table, users, cycle, cursor, db_open, processed, outcome, sent,
               notifications>>

fetchVars == <<api_news, fetched>>

ratingVars == <<analyst_data, ratings_cache, rating_calls>>

pipelineVars == <<batchVars, cycleVars, fetchVars, ratingVars>>

vars == <<op, similarityVars, dedupVars, gateVars, laterVars, pipelineVars>>

(***************************************************************************)
(* Bounds of the model.                                                    *)
(***************************************************************************)
\* words per generated headline
MaxWords == 2
\* items per news list
MaxItems == 3
\* largest implied move of a price target, in percent, either way
MaxChangePct == 31

(***************************************************************************)
(* Python built-ins used by the code.                                      *)
(***************************************************************************)
\* The value None: what dict.get(k) returns for an absent key.
None == "None"

\* dict.get(k, default)
Get(d, k, default) == IF k \in DOMAIN d THEN d[k] ELSE default

\* Code-point order of the characters the model uses (ASCII order).
Ascii ==
    << " ", "!", ",", "-", ".", "/",
       "0", "1", "2", "3", "4", "5", "6", "7", "8", "9",
       "A", "B", "C", "D", "E", "F", "G", "H", "I", "J", "K", "L", "M",
       "N", "O", "P", "Q", "R", "S", "T", "U", "V", "W", "X", "Y", "Z",
       "_",
       "a", "b", "c", "d", "e", "f", "g", "h", "i", "j", "k", "l", "m",
       "n", "o", "p", "q", "r", "s", "t", "u", "v", "w", "x", "y", "z" >>

Code == [c \in {Ascii[i] : i \in 1..Len(Ascii)} |->
             CHOOSE i \in 1..Len(Ascii) : Ascii[i] = c]

\* ord(c)
Ord(c) == Code[c]

UpperChars == {Ascii[i] : i \in Code["A"]..Code["Z"]}
LowerChars == {Ascii[i] : i \in Code["a"]..Code["z"]}
DigitChars == {Ascii[i] : i \in Code["0"]..Code["9"]}

\* \w of the re module: letters, digits and the underscore
WordChars == UpperChars \cup LowerChars \cup DigitChars \cup {"_"}

IsWordChar(c) == c \in WordChars

\* \s of the re module (the only whitespace of the model is the blank)
IsSpace(c) == c = " "

\* str.lower() on each character: an upper-case letter moves to the
\* lower-case letter at the same offset, any other character stays
LowerTable ==
    [c \in DOMAIN Code |->
        IF c \in UpperChars THEN Ascii[Code[c] - Code["A"] + Code["a"]] ELSE c]

LowerChar(c) == LowerTable[c]

\* str.lower()
Lower(s) == [i \in 1..Len(s) |-> LowerChar(s[i])]

\* re.sub(r'[^\w\s]', ' ', s)
StripPunctuation(s) ==
    [i \in 1..Len(s) |-> IF IsWordChar(s[i]) \/ IsSpace(s[i]) THEN s[i] ELSE " "]

\* str.split(): the maximal runs of non-whitespace characters, in order
RECURSIVE SplitFrom(_, _, _)
SplitFrom(s, i, word) ==
    IF i > Len(s)
    THEN IF word = <<>> THEN <<>> ELSE <<word>>
    ELSE IF IsSpace(s[i])
         THEN (IF word = <<>> THEN <<>> ELSE <<word>>) \o SplitFrom(s, i + 1, <<>>)
         ELSE SplitFrom(s, i + 1, Append(word, s[i]))

Split(s) == SplitFrom(s, 1, <<>>)

\* str < str: lexicographic order by code point
RECURSIVE StrLess(_, _)
StrLess(a, b) ==
    IF b = <<>> THEN FALSE
    ELSE IF a = <<>> THEN TRUE
    ELSE IF a[1] = b[1] THEN StrLess(Tail(a), Tail(b))
    ELSE Ord(a[1]) < Ord(b[1])

\* list.sort() on a list of str (insertion of each word in turn; stable)
RECURSIVE InsertWord(_, _)
InsertWord(w, sorted) ==
    IF sorted = <<>> THEN <<w>>
    ELSE IF StrLess(w, sorted[1]) THEN <<w>> \o sorted
    ELSE <<sorted[1]>> \o InsertWord(w, Tail(sorted))

RECURSIVE SortWords(_)
SortWords(words) ==
    IF words = <<>> THEN <<>>
    ELSE InsertWord(words[Len(words)], SortWords(SubSeq(words, 1, Len(words) - 1)))

\* ' '.join(words)
RECURSIVE Join(_)
Join(words) ==
    IF words = <<>> THEN <<>>
    ELSE IF Len(words) = 1 THEN words[1]
    ELSE words[1] \o <<" ">> \o Join(Tail(words))

\* a + b on str
Concat(a, b) == a \o b

\* needle in haystack (substring test)
Contains(haystack, needle) ==
    \E i \in 1..(Len(haystack) - Len(needle) + 1) :
        SubSeq(haystack, i, i + Len(needle) - 1) = needle

\* set(list)
ToSet(seq) == {seq[i] : i \in 1..Len(seq)}

\* [x for x in seq if keep[x]]
RECURSIVE SelectWords(_, _)
SelectWords(words, drop) ==
    IF words = <<>> THEN <<>>
    ELSE IF words[1] \in drop THEN SelectWords(Tail(words), drop)
    ELSE <<words[1]>> \o SelectWords(Tail(words), drop)

\* d[k] = v on a dict
SetKey(d, k, v) == [x \in DOMAIN d \cup {k} |-> IF x = k THEN v ELSE d[x]]

\* seq[:n]
Take(seq, n) == SubSeq(seq, 1, IF Len(seq) < n THEN Len(seq) ELSE n)

\* max(a, b)
Max(a, b) == IF a >= b THEN a ELSE b

\* 1..n as a sequence
Positions(n) == [i \in 1..n |-> i]

(***************************************************************************)
(* Inputs.                                                                 *)
(***************************************************************************)
\* The words headlines are generated from: a stop word, the same word in
\* two cases, a word with punctuation attached, a hyphenated word.
RawWords ==
    { <<"a">>,
      <<"B">>,
      <<"b", ",">>,
      <<"c", "-", "d">>,
      <<"d">> }

\* the headlines of exactly n words
RECURSIVE TitlesOfLen(_)
TitlesOfLen(n) ==
    IF n = 0 THEN {<<>>}
    ELSE IF n = 1 THEN RawWords
    ELSE {Concat(Concat(w, <<" ">>), t) : w \in RawWords, t \in TitlesOfLen(n - 1)}

\* the headlines of at most MaxWords words
Titles == UNION {TitlesOfLen(n) : n \in 0..MaxWords}

\* Three headlines on one product launch, worded closer and closer:
\* the first and the third are each near the second but not near each other.
LaunchLong ==
    [symbol |-> "AAPL",
     title |-> <<"A", "p", "p", "l", "e", " ", "u", "n", "v", "e", "i", "l", "s", " ", "n", "e", "w", " ", "i", "P", "h", "o", "n", "e">>,
     text |-> <<>>]
LaunchMid ==
    [symbol |-> "AAPL",
     title |-> <<"A", "P", "P", "L", "E", " ", "u", "n", "v", "e", "i", "l", "s", " ", "t", "h", "e", " ", "i", "P", "h", "o", "n", "e", "!">>,
     text |-> <<>>]
LaunchShort ==
    [symbol |-> "AAPL",
     title |-> <<"A", "p", "p", "l", "e", " ", "i", "P", "h", "o", "n", "e">>,
     text |-> <<>>]

\* Two stories on one earnings call with no headline word in common; the
\* second names its event in the body only.
EarningsHeadline ==
    [symbol |-> "AAPL",
     title |-> <<"A", "p", "p", "l", "e", " ", "Q", "3", " ", "e", "a", "r", "n", "i", "n", "g", "s">>,
     text |-> <<>>]
EarningsBody ==
    [symbol |-> "AAPL",
     title |-> <<"R", "e", "c", "o", "r", "d", " ", "p", "r", "o", "f", "i", "t">>,
     text |-> <<"E", "a", "r", "n", "i", "n", "g", "s", " ", "c", "a", "l", "l">>]

\* publishedDate values (fixed width, so string order is time order)
Dates == { <<"0", "9">>, <<"1", "0">> }

\* site values: a ranked source as the feed spells it, and an unranked one
Sites == { <<"R", "e", "u", "t", "e", "r", "s">>, <<"b", "l", "o", "g">> }

\* an article: symbol, title and text with its date and site
Article(content, date, site) ==
    SetKey(SetKey(content, "publishedDate", date), "site", site)

\* the articles of the single-symbol feed
Articles ==
    {Article(c, d, s) : c \in {LaunchLong, LaunchMid, LaunchShort}, d \in Dates, s \in Sites}
    \cup {Article(EarningsHeadline, <<"1", "0">>, <<"C", "N", "B", "C">>),
          Article(EarningsBody, <<"0", "9">>, <<"b", "l", "o", "g">>)}

\* the two NVDA headlines of the duplicate-detection scenario
NvdaFirst ==
    Article([symbol |-> "NVDA",
             title |-> <<"N", "V", "I", "D", "I", "A", " ", "b", "e", "a", "t", "s", " ", "Q", "3", " ", "e", "a", "r", "n", "i", "n", "g", "s", " ", "e", "s", "t", "i", "m", "a", "t", "e", "s", ",", " ", "r", "a", "i", "s", "e", "s", " ", "g", "u", "i", "d", "a", "n", "c", "e">>,
             text |-> <<>>],
            <<"1", "0">>, <<"R", "e", "u", "t", "e", "r", "s">>)
NvdaSecond ==
    Article([symbol |-> "NVDA",
             title |-> <<"N", "v", "i", "d", "i", "a", " ", "Q", "3", " ", "e", "a", "r", "n", "i", "n", "g", "s", " ", "t", "o", "p", " ", "e", "x", "p", "e", "c", "t", "a", "t", "i", "o", "n", "s", ",", " ", "g", "u", "i", "d", "a", "n", "c", "e", " ", "r", "a", "i", "s", "e", "d">>,
             text |-> <<>>],
            <<"1", "0">>, <<"C", "N", "B", "C">>)

\* One headline and a rewording of it, for each symbol a record can carry;
\* a record without the symbol key is the malformed one.
Headline == <<"Q", "3", " ", "e", "a", "r", "n", "i", "n", "g", "s", " ", "b", "e", "a", "t", " ", "e", "x", "p", "e", "c", "t", "a", "t", "i", "o", "n", "s">>
Reworded == <<"E", "a", "r", "n", "i", "n", "g", "s", " ", "t", "o", "p", " ", "e", "s", "t", "i", "m", "a", "t", "e", "s">>

SymbolArticles ==
    {Article(SetKey([title |-> t, text |-> <<>>], "symbol", sym), <<"1", "0">>, <<"b", "l", "o", "g">>) :
        t \in {Headline, Reworded}, sym \in {"AAPL", "MSFT", "UNKNOWN"}}
    \cup {Article([title |-> t, text |-> <<>>], <<"1", "0">>, <<"b", "l", "o", "g">>) :
        t \in {Headline, Reworded}}

\* every article of the model
AllArticles == Articles \cup SymbolArticles \cup {NvdaFirst, NvdaSecond}

\* the record the analyzer merges onto an item
SomeAnalysis == [impact_score |-> 5, urgency |-> "Days"]

\* The list get_portfolio_news returns for a feed: every item has its own
\* url (duplicates by url are removed upstream), here "u" and its position.
WithUrls(list) ==
    [k \in 1..Len(list) |-> SetKey(list[k], "url", <<"u", Ascii[Ord("0") + k]>>)]

\* the list batch_analyze returns: each item with its analysis merged on
WithAnalysis(list) ==
    [k \in 1..Len(list) |-> SetKey(list[k], "analysis", SomeAnalysis)]

(***************************************************************************)
(* NewsDeduplicator: similarity scorer.                                    *)
(***************************************************************************)
stop_words ==
    { <<"t", "h", "e">>,
      <<"a">>,
      <<"a", "n">>,
      <<"a", "n", "d">>,
      <<"o", "r">>,
      <<"b", "u", "t">>,
      <<"i", "n">>,
      <<"o", "n">>,
      <<"a", "t">>,
      <<"t", "o">>,
      <<"f", "o", "r">>,
      <<"o", "f">>,
      <<"w", "i", "t", "h">>,
      <<"b", "y">>,
      <<"f", "r", "o", "m">>,
      <<"a", "s">>,
      <<"i", "s">>,
      <<"a", "r", "e">>,
      <<"w", "a", "s">>,
      <<"w", "e", "r", "e">>,
      <<"s", "t", "o", "c", "k">>,
      <<"s", "t", "o", "c", "k", "s">>,
      <<"s", "h", "a", "r", "e", "s">>,
      <<"n", "e", "w", "s">>,
      <<"r", "e", "p", "o", "r", "t">>,
      <<"r", "e", "p", "o", "r", "t", "s">>,
      <<"a", "n", "n", "o", "u", "n", "c", "e", "s">> }

\* _normalize_title: lowercase, strip punctuation, drop stop words, sort, join
_normalize_title(title) ==
    Join(SortWords(SelectWords(Split(StripPunctuation(Lower(title))), stop_words)))

\* set(self._normalize_title(title).split())
TokenSet(title) == ToSet(Split(_normalize_title(title)))

\* TokenSet tabulated once for the headlines of the model
TokenSets == [t \in Titles \cup {a.title : a \in AllArticles} |-> TokenSet(t)]

TokensOf(title) ==
    IF title \in DOMAIN TokenSets THEN TokenSets[title] ELSE TokenSet(title)

\* _calculate_similarity returning 1.0 for two empty token sets
CalculateSimilarityEmptyIsOne(t1, t2) ==
    LET norm1 == TokensOf(t1)
        norm2 == TokensOf(t2)
        intersection == Cardinality(norm1 \cap norm2)
        union == Cardinality(norm1 \cup norm2)
    IN  IF union > 0 THEN <<intersection, union>> ELSE <<1, 1>>

\* _calculate_similarity: Jaccard index of the two normalized token sets.
\* The float intersection / union is kept as the fraction
\* <<intersection, union>>; 0.0 is <<0, 1>>.
_calculate_similarity(t1, t2) ==
    LET norm1 == TokensOf(t1)
        norm2 == TokensOf(t2)
        intersection == Cardinality(norm1 \cap norm2)
        union == Cardinality(norm1 \cup norm2)
    IN  IF norm1 = {} \/ norm2 = {} THEN <<0, 1>>
        ELSE IF union > 0 THEN <<intersection, union>> ELSE <<0, 1>>

\* comparison of a fraction with a decimal constant n/d:  f >= n/d
FracGeq(f, n, d) == f[1] * d >= n * f[2]

(***************************************************************************)
(* NewsDeduplicator: same-event test.                                      *)
(***************************************************************************)
\* the key event patterns of _are_similar
events ==
    { <<"e", "a", "r", "n", "i", "n", "g", "s">>,
      <<"r", "e", "v", "e", "n", "u", "e">>,
      <<"p", "r", "o", "f", "i", "t">>,
      <<"e", "p", "s">>,
      <<"g", "u", "i", "d", "a", "n", "c", "e">>,
      <<"b", "e", "a", "t", "s">>,
      <<"m", "i", "s", "s", "e", "s">>,
      <<"u", "p", "g", "r", "a", "d", "e", "d">>,
      <<"d", "o", "w", "n", "g", "r", "a", "d", "e", "d">>,
      <<"a", "c", "q", "u", "i", "s", "i", "t", "i", "o", "n">>,
      <<"m", "e", "r", "g", "e", "r">>,
      <<"c", "e", "o">>,
      <<"l", "a", "y", "o", "f", "f">>,
      <<"p", "r", "o", "d", "u", "c", "t", " ", "l", "a", "u", "n", "c", "h">>,
      <<"r", "e", "c", "a", "l", "l">>,
      <<"l", "a", "w", "s", "u", "i", "t">> }

\* the default title threshold of _are_similar, 0.6, as <<numerator, denominator>>
threshold == <<6, 10>>

\* the lowercased title + ' ' + text of an item
EventText(news) ==
    Lower(Concat(Concat(Get(news, "title", <<>>), <<" ">>), Get(news, "text", <<>>)))

\* {event for event in events if event in text}
EventSet(text) == {event \in events : Contains(text, event)}

\* EventSet tabulated once for the articles of the model
EventSets == [x \in {EventText(a) : a \in AllArticles} |-> EventSet(x)]

EventsIn(text) ==
    IF text \in DOMAIN EventSets THEN EventSets[text] ELSE EventSet(text)

\* the keyword rule of _are_similar: both sets non-empty and
\* len(events1 & events2) / max(len(events1), len(events2)) >= 0.5
EventOverlap(news1, news2) ==
    LET events1 == EventsIn(EventText(news1))
        events2 == EventsIn(EventText(news2))
    IN  /\ events1 # {}
        /\ events2 # {}
        /\ 2 * Cardinality(events1 \cap events2)
               >= Max(Cardinality(events1), Cardinality(events2))

\* _are_similar without the symbol test
AreSimilarIgnoringSymbol(news1, news2) ==
    LET title_sim == _calculate_similarity(Get(news1, "title", <<>>),
                                           Get(news2, "title", <<>>))
    IN  IF FracGeq(title_sim, threshold[1], threshold[2]) THEN TRUE
        ELSE EventOverlap(news1, news2)

\* _are_similar without the keyword rule
AreSimilarTitleOnly(news1, news2) ==
    IF Get(news1, "symbol", None) # Get(news2, "symbol", None) THEN FALSE
    ELSE FracGeq(_calculate_similarity(Get(news1, "title", <<>>),
                                       Get(news2, "title", <<>>)),
                 threshold[1], threshold[2])

\* _are_similar: same symbol, and title similarity >= threshold or the
\* keyword rule
_are_similar(news1, news2) ==
    IF Get(news1, "symbol", None) # Get(news2, "symbol", None) THEN FALSE
    ELSE LET title_sim == _calculate_similarity(Get(news1, "title", <<>>),
                                                Get(news2, "title", <<>>))
         IN  IF FracGeq(title_sim, threshold[1], threshold[2]) THEN TRUE
             ELSE EventOverlap(news1, news2)

(***************************************************************************)
(* NewsDeduplicator.deduplicate.  The walk works on positions of the list  *)
(* handed in, so that the items mutated in place are known.                *)
(***************************************************************************)
\* the source quality ranking of deduplicate
source_quality ==
    << <<<<"r", "e", "u", "t", "e", "r", "s">>, 10>>,
       <<<<"b", "l", "o", "o", "m", "b", "e", "r", "g">>, 10>>,
       <<<<"t", "h", "e", " ", "w", "a", "l", "l", " ", "s", "t", "r", "e", "e", "t", " ", "j", "o", "u", "r", "n", "a", "l">>, 9>>,
       <<<<"f", "i", "n", "a", "n", "c", "i", "a", "l", " ", "t", "i", "m", "e", "s">>, 9>>,
       <<<<"c", "n", "b", "c">>, 8>>,
       <<<<"m", "a", "r", "k", "e", "t", "w", "a", "t", "c", "h">>, 7>>,
       <<<<"y", "a", "h", "o", "o", " ", "f", "i", "n", "a", "n", "c", "e">>, 6>>,
       <<<<"s", "e", "e", "k", "i", "n", "g", " ", "a", "l", "p", "h", "a">>, 5>>,
       <<<<"b", "e", "n", "z", "i", "n", "g", "a">>, 4>> >>

\* source_quality.get(name, 0)
QualityOf(name) ==
    IF \E i \in 1..Len(source_quality) : source_quality[i][1] = name
    THEN source_quality[CHOOSE i \in 1..Len(source_quality) :
                            source_quality[i][1] = name][2]
    ELSE 0

\* the key of max(): the rank of the lowercased site, with the lookup done
\* on the name as written
SourceRankCaseSensitive(news) == QualityOf(Get(news, "site", <<>>))

\* the key of max(): source_quality.get(x.get('site', '').lower(), 0)
SourceRank(news) == QualityOf(Lower(Get(news, "site", <<>>)))

\* the sort key: x.get('publishedDate', '')
DateKey(news) == Get(news, "publishedDate", <<>>)

\* One insertion of sorted(..., reverse=True): position k goes before the
\* first position whose key is strictly smaller, so equal keys keep the
\* order of the input (the sort is stable).
RECURSIVE InsertByDate(_, _, _)
InsertByDate(items, k, order) ==
    IF order = <<>> THEN <<k>>
    ELSE IF StrLess(DateKey(items[order[1]]), DateKey(items[k]))
         THEN <<k>> \o order
         ELSE <<order[1]>> \o InsertByDate(items, k, Tail(order))

\* the sort of deduplicate taken ascending (reverse=True left out)
RECURSIVE SortedOldestFirst(_, _)
SortedOldestFirst(items, idxs) ==
    IF idxs = <<>> THEN <<>>
    ELSE LET rest == SortedOldestFirst(items, SubSeq(idxs, 1, Len(idxs) - 1))
             k == idxs[Len(idxs)]
             RECURSIVE Ins(_)
             Ins(order) ==
                 IF order = <<>> THEN <<k>>
                 ELSE IF StrLess(DateKey(items[k]), DateKey(items[order[1]]))
                      THEN <<k>> \o order
                      ELSE <<order[1]>> \o Ins(Tail(order))
         IN  Ins(rest)

\* sorted(news_items, key=publishedDate, reverse=True), as positions
RECURSIVE SortedOrder(_, _)
SortedOrder(items, idxs) ==
    IF idxs = <<>> THEN <<>>
    ELSE InsertByDate(items, idxs[Len(idxs)],
                      SortedOrder(items, SubSeq(idxs, 1, Len(idxs) - 1)))

\* the inner loop comparing the item with every member of a group instead
\* of the first one only
RECURSIVE FindGroupAnyMember(_, _, _, _)
FindGroupAnyMember(items, groups, idx, i) ==
    IF i > Len(groups) THEN 0
    ELSE IF \E j \in 1..Len(groups[i]) : _are_similar(items[idx], items[groups[i][j]]) THEN i
    ELSE FindGroupAnyMember(items, groups, idx, i + 1)

\* the inner loop: the first group whose first member is similar to the
\* item at position idx, 0 when there is none
RECURSIVE FindGroup(_, _, _, _)
FindGroup(items, groups, idx, i) ==
    IF i > Len(groups) THEN 0
    ELSE IF _are_similar(items[idx], items[groups[i][1]]) THEN i
    ELSE FindGroup(items, groups, idx, i + 1)

\* the outer loop over sorted_news from its k-th element on
RECURSIVE BuildGroups(_, _, _, _)
BuildGroups(items, order, k, groups) ==
    IF k > Len(order) THEN groups
    ELSE LET i == FindGroup(items, groups, order[k], 1)
         IN  BuildGroups(items, order, k + 1,
                 IF i = 0 THEN Append(groups, <<order[k]>>)
                 ELSE [groups EXCEPT ![i] = Append(@, order[k])])

\* seen_groups after the walk
SeenGroups(items, idxs) == BuildGroups(items, SortedOrder(items, idxs), 1, <<>>)

\* max(group, key=...): the first member, in group order, of maximal rank
RECURSIVE BestOf(_, _)
BestOf(items, group) ==
    IF Len(group) = 1 THEN group[1]
    ELSE LET rest == BestOf(items, Tail(group))
         IN  IF SourceRank(items[group[1]]) >= SourceRank(items[rest])
             THEN group[1] ELSE rest

\* [g.get('site') for g in group if g != best], best being the member at
\* position b as it is once sources_count has been set on it
RECURSIVE OtherSites(_, _, _, _)
OtherSites(items, group, b, counted) ==
    IF group = <<>> THEN <<>>
    ELSE LET g == IF group[1] = b THEN counted ELSE items[group[1]]
         IN  (IF g # counted THEN <<Get(g, "site", None)>> ELSE <<>>)
                 \o OtherSites(items, Tail(group), b, counted)

\* the item appended to unique_news for one group: the only member, or the
\* best-ranked member with the note about the other sources on its analysis
Canonical(items, group) ==
    IF Len(group) = 1 THEN items[group[1]]
    ELSE LET b == BestOf(items, group)
             best == items[b]
         IN  IF "analysis" \in DOMAIN best
             THEN LET counted == [best EXCEPT !.analysis =
                                      SetKey(@, "sources_count", Len(group))]
                  IN  [counted EXCEPT !.analysis =
                          SetKey(@, "other_sources",
                                 Take(OtherSites(items, group, b, counted), 3))]
             ELSE best

\* unique_news: one canonical item per group, in group order
UniqueNews(items, groups) == [i \in 1..Len(groups) |-> Canonical(items, groups[i])]

\* The list handed in, as the call leaves it: the canonical items are the
\* very objects of the list, so what the call wrote on unique_news[i] is
\* written on the best member of group i.
AfterCall(items, groups, unique_news) ==
    [k \in 1..Len(items) |->
        IF \E i \in 1..Len(groups) : BestOf(items, groups[i]) = k
        THEN unique_news[CHOOSE i \in 1..Len(groups) : BestOf(items, groups[i]) = k]
        ELSE items[k]]

\* deduplicate run on the positions idxs of items: empty for no items,
\* else the groups of the walk
GroupsAt(items, idxs) == IF idxs = <<>> THEN <<>> ELSE SeenGroups(items, idxs)

\* news.get('symbol', 'UNKNOWN'), the key of group_by_symbol
SymbolKey(news) == Get(news, "symbol", "UNKNOWN")

\* grouped[symbol] before deduplication: the positions of that key, in order
RECURSIVE PositionsOf(_, _, _)
PositionsOf(items, symbol, k) ==
    IF k > Len(items) THEN <<>>
    ELSE (IF SymbolKey(items[k]) = symbol THEN <<k>> ELSE <<>>)
             \o PositionsOf(items, symbol, k + 1)

\* the keys of grouped in insertion order
RECURSIVE KeysFrom(_, _, _)
KeysFrom(items, k, keys) ==
    IF k > Len(items) THEN keys
    ELSE KeysFrom(items, k + 1,
             IF \E i \in 1..Len(keys) : keys[i] = SymbolKey(items[k])
             THEN keys ELSE Append(keys, SymbolKey(items[k])))

\* group_by_symbol without the deduplicate call on each list: every item
\* of a key is a group of its own
RECURSIVE GroupsOfKeysAsCollected(_, _)
GroupsOfKeysAsCollected(items, keys) ==
    IF keys = <<>> THEN <<>>
    ELSE [j \in 1..Len(PositionsOf(items, keys[1], 1)) |->
             <<PositionsOf(items, keys[1], 1)[j]>>]
             \o GroupsOfKeysAsCollected(items, Tail(keys))

\* the groups of the per-symbol deduplicate calls, in key order
RECURSIVE GroupsOfKeys(_, _)
GroupsOfKeys(items, keys) ==
    IF keys = <<>> THEN <<>>
    ELSE GroupsAt(items, PositionsOf(items, keys[1], 1))
             \o GroupsOfKeys(items, Tail(keys))

\* the groups among `groups` whose members carry the key symbol
RECURSIVE GroupsOfSymbol(_, _, _)
GroupsOfSymbol(items, groups, symbol) ==
    IF groups = <<>> THEN <<>>
    ELSE (IF SymbolKey(items[groups[1][1]]) = symbol THEN <<groups[1]>> ELSE <<>>)
             \o GroupsOfSymbol(items, Tail(groups), symbol)

\* should_notify without the urgent tier
ShouldNotifyNoUrgentTier(a) == Get(a, "impact_score", 0) >= impact_threshold

\* should_notify with the threshold test taken strictly
ShouldNotifyStrict(a) ==
    LET impact_score == Get(a, "impact_score", 0)
        urgency == Get(a, "urgency", "Days")
    IN  IF impact_score > impact_threshold THEN TRUE
        ELSE IF urgency \in {"Immediate", "Hours"} /\ impact_score >= 4 THEN TRUE
        ELSE FALSE

\* should_notify(analysis) of AIAnalyzer
should_notify(a) ==
    LET impact_score == Get(a, "impact_score", 0)
        urgency == Get(a, "urgency", "Days")
    IN  IF impact_score >= impact_threshold THEN TRUE
        ELSE IF urgency \in {"Immediate", "Hours"} /\ impact_score >= 4 THEN TRUE
        ELSE FALSE

(***************************************************************************)
(* The macro gate and the macro step of a monitoring cycle                 *)
(* (services/correlation_analyzer.py, main.py).                            *)
(***************************************************************************)
\* should_notify_macro without the High-risk override
ShouldNotifyMacroNoRiskOverride(a) ==
    LET impact_score == Get(a, "impact_score", 0)
        urgency == Get(a, "urgency", "Days")
    IN  IF impact_score >= 8 THEN TRUE
        ELSE IF impact_score >= 7 /\ urgency \in {"Immediate", "Hours"} THEN TRUE
        ELSE FALSE

\* should_notify_macro(analysis) of CorrelationAnalyzer
should_notify_macro(a) ==
    LET impact_score == Get(a, "impact_score", 0)
        urgency == Get(a, "urgency", "Days")
        risk_level == Get(a, "risk_level", "Low")
    IN  IF impact_score >= 8 THEN TRUE
        ELSE IF impact_score >= 7 /\ urgency \in {"Immediate", "Hours"} THEN TRUE
        ELSE IF risk_level = "High" /\ impact_score >= 7 THEN TRUE
        ELSE FALSE

\* list.sort(key=impact_score, reverse=True): highest first, equal scores in
\* the order they had
RECURSIVE InsertByScore(_, _)
InsertByScore(x, sorted) ==
    IF sorted = <<>> THEN <<x>>
    ELSE IF Get(x.analysis, "impact_score", 0) > Get(sorted[1].analysis, "impact_score", 0)
         THEN <<x>> \o sorted
         ELSE <<sorted[1]>> \o InsertByScore(x, Tail(sorted))

RECURSIVE SortedByScore(_, _)
SortedByScore(list, sorted) ==
    IF list = <<>> THEN sorted
    ELSE SortedByScore(Tail(list), InsertByScore(list[1], sorted))

\* batch_analyze_macro_events(events, holdings): the events whose analysis
\* scores 7 or more, each with its analysis and timestamp, highest score
\* first
RECURSIVE SignificantEvents(_)
SignificantEvents(macro_list) ==
    IF macro_list = <<>> THEN <<>>
    ELSE (IF Get(macro_list[1].analysis, "impact_score", 0) >= 7
          THEN <<[event |-> macro_list[1].event,
                  analysis |-> macro_list[1].analysis,
                  timestamp |-> Get(macro_list[1].event, "timestamp", None)]>>
          ELSE <<>>)
             \o SignificantEvents(Tail(macro_list))

batch_analyze_macro_events(macro_list) ==
    SortedByScore(SignificantEvents(macro_list), <<>>)

\* the loop of main.py over analyzed_macro: the items the macro gate lets
\* through
RECURSIVE NotifyWorthy(_)
NotifyWorthy(analyzed_macro) ==
    IF analyzed_macro = <<>> THEN <<>>
    ELSE (IF should_notify_macro(analyzed_macro[1].analysis)
          THEN <<analyzed_macro[1]>> ELSE <<>>)
             \o NotifyWorthy(Tail(analyzed_macro))

(***************************************************************************)
(* The broker rating-change scorer (services/broker_upgrades_service.py).  *)
(* Scores are kept in tenths, so that 5.0 is 50 and 1.5 is 15; every       *)
(* score of the code is a sum of multiples of 0.5 and so exact as a float. *)
(***************************************************************************)
\* self.premium_brokers
premium_brokers ==
    << <<"G", "o", "l", "d", "m", "a", "n", " ", "S", "a", "c", "h", "s">>,
       <<"M", "o", "r", "g", "a", "n", " ", "S", "t", "a", "n", "l", "e", "y">>,
       <<"J", "P", " ", "M", "o", "r", "g", "a", "n">>,
       <<"J", "P", "M", "o", "r", "g", "a", "n">>,
       <<"B", "a", "n", "k", " ", "o", "f", " ", "A", "m", "e", "r", "i", "c", "a">>,
       <<"B", "o", "f", "A", " ", "S", "e", "c", "u", "r", "i", "t", "i", "e", "s">>,
       <<"M", "e", "r", "r", "i", "l", "l", " ", "L", "y", "n", "c", "h">>,
       <<"B", "a", "r", "c", "l", "a", "y", "s">>,
       <<"D", "e", "u", "t", "s", "c", "h", "e", " ", "B", "a", "n", "k">>,
       <<"C", "r", "e", "d", "i", "t", " ", "S", "u", "i", "s", "s", "e">>,
       <<"U", "B", "S">>,
       <<"C", "i", "t", "i">>,
       <<"C", "i", "t", "i", "g", "r", "o", "u", "p">>,
       <<"W", "e", "l", "l", "s", " ", "F", "a", "r", "g", "o">>,
       <<"W", "e", "l", "l", "s", " ", "F", "a", "r", "g", "o", " ", "S", "e", "c", "u", "r", "i", "t", "i", "e", "s">>,
       <<"J", "e", "f", "f", "e", "r", "i", "e", "s">>,
       <<"R", "a", "y", "m", "o", "n", "d", " ", "J", "a", "m", "e", "s">>,
       <<"E", "v", "e", "r", "c", "o", "r", "e", " ", "I", "S", "I">>,
       <<"E", "v", "e", "r", "c", "o", "r", "e">>,
       <<"B", "e", "r", "n", "s", "t", "e", "i", "n">>,
       <<"S", "a", "n", "f", "o", "r", "d", " ", "C", ".", " ", "B", "e", "r", "n", "s", "t", "e", "i", "n">>,
       <<"R", "B", "C", " ", "C", "a", "p", "i", "t", "a", "l", " ", "M", "a", "r", "k", "e", "t", "s">>,
       <<"R", "B", "C">>,
       <<"H", "S", "B", "C">>,
       <<"S", "o", "c", "i", "e", "t", "e", " ", "G", "e", "n", "e", "r", "a", "l", "e">>,
       <<"B", "N", "P", " ", "P", "a", "r", "i", "b", "a", "s">>,
       <<"P", "i", "p", "e", "r", " ", "S", "a", "n", "d", "l", "e", "r">>,
       <<"W", "e", "d", "b", "u", "s", "h">>,
       <<"O", "p", "p", "e", "n", "h", "e", "i", "m", "e", "r">>,
       <<"N", "e", "e", "d", "h", "a", "m">>,
       <<"S", "t", "i", "f", "e", "l">> >>

\* self.bullish_ratings
bullish_ratings ==
    << <<"b", "u", "y">>,
       <<"s", "t", "r", "o", "n", "g", " ", "b", "u", "y">>,
       <<"o", "u", "t", "p", "e", "r", "f", "o", "r", "m">>,
       <<"o", "v", "e", "r", "w", "e", "i", "g", "h", "t">>,
       <<"p", "o", "s", "i", "t", "i", "v", "e">>,
       <<"a", "c", "c", "u", "m", "u", "l", "a", "t", "e">>,
       <<"a", "d", "d">>,
       <<"s", "e", "c", "t", "o", "r", " ", "o", "u", "t", "p", "e", "r", "f", "o", "r", "m">>,
       <<"m", "a", "r", "k", "e", "t", " ", "o", "u", "t", "p", "e", "r", "f", "o", "r", "m">>,
       <<"c", "o", "n", "v", "i", "c", "t", "i", "o", "n", " ", "b", "u", "y">>,
       <<"t", "o", "p", " ", "p", "i", "c", "k">> >>

\* self.bearish_ratings
bearish_ratings ==
    << <<"s", "e", "l", "l">>,
       <<"s", "t", "r", "o", "n", "g", " ", "s", "e", "l", "l">>,
       <<"u", "n", "d", "e", "r", "p", "e", "r", "f", "o", "r", "m">>,
       <<"u", "n", "d", "e", "r", "w", "e", "i", "g", "h", "t">>,
       <<"n", "e", "g", "a", "t", "i", "v", "e">>,
       <<"r", "e", "d", "u", "c", "e">>,
       <<"a", "v", "o", "i", "d">>,
       <<"s", "e", "c", "t", "o", "r", " ", "u", "n", "d", "e", "r", "p", "e", "r", "f", "o", "r", "m">>,
       <<"m", "a", "r", "k", "e", "t", " ", "u", "n", "d", "e", "r", "p", "e", "r", "f", "o", "r", "m">> >>

\* self.neutral_ratings
neutral_ratings ==
    << <<"h", "o", "l", "d">>,
       <<"n", "e", "u", "t", "r", "a", "l">>,
       <<"e", "q", "u", "a", "l", "-", "w", "e", "i", "g", "h", "t">>,
       <<"e", "q", "u", "a", "l", " ", "w", "e", "i", "g", "h", "t">>,
       <<"m", "a", "r", "k", "e", "t", " ", "p", "e", "r", "f", "o", "r", "m">>,
       <<"s", "e", "c", "t", "o", "r", " ", "p", "e", "r", "f", "o", "r", "m">>,
       <<"i", "n", "-", "l", "i", "n", "e">>,
       <<"i", "n", "l", "i", "n", "e">>,
       <<"p", "e", "e", "r", " ", "p", "e", "r", "f", "o", "r", "m">>,
       <<"m", "i", "x", "e", "d">> >>

\* str.strip(): the blanks at both ends removed
RECURSIVE Strip(_)
Strip(s) ==
    IF s = <<>> THEN s
    ELSE IF IsSpace(s[1]) THEN Strip(Tail(s))
    ELSE IF IsSpace(s[Len(s)]) THEN Strip(SubSeq(s, 1, Len(s) - 1))
    ELSE s

\* any(word in text for word in words)
AnyIn(words, text) == \E i \in 1..Len(words) : Contains(text, words[i])

\* _classify_rating(rating)
_classify_rating(grade) ==
    LET rating_lower == Strip(Lower(grade))
    IN  IF AnyIn(bullish_ratings, rating_lower) THEN "bullish"
        ELSE IF AnyIn(bearish_ratings, rating_lower) THEN "bearish"
        ELSE IF AnyIn(neutral_ratings, rating_lower) THEN "neutral"
        ELSE "unknown"

\* rating_order.get(rating_class, 1)
RatingOrder(rating_class) ==
    IF rating_class = "bearish" THEN 0
    ELSE IF rating_class = "neutral" THEN 1
    ELSE IF rating_class = "bullish" THEN 2
    ELSE 1

\* _determine_action_type with an unclassified grade ranked with the bearish
DetermineActionTypeUnknownLowest(action, old_rating, new_rating) ==
    LET action_lower == Lower(action)
        Order(c) == IF c = "unknown" THEN 0 ELSE RatingOrder(c)
        old_class == _classify_rating(old_rating)
        new_class == _classify_rating(new_rating)
    IN  IF Contains(action_lower, <<"u", "p", "g", "r", "a", "d", "e">>) THEN "upgrade"
        ELSE IF Contains(action_lower, <<"d", "o", "w", "n", "g", "r", "a", "d", "e">>) THEN "downgrade"
        ELSE IF Contains(action_lower, <<"i", "n", "i", "t", "i", "a", "t">>) \/ Contains(action_lower, <<"s", "t", "a", "r", "t">>)
             THEN "initiated"
        ELSE IF Contains(action_lower, <<"r", "e", "i", "t", "e", "r", "a", "t">>) \/ Contains(action_lower, <<"m", "a", "i", "n", "t", "a", "i", "n">>)
             THEN "reiterated"
        ELSE IF Order(new_class) > Order(old_class) THEN "upgrade"
        ELSE IF Order(new_class) < Order(old_class) THEN "downgrade"
        ELSE "reiterated"

\* _determine_action_type(action, old_rating, new_rating)
_determine_action_type(action, old_rating, new_rating) ==
    LET action_lower == Lower(action)
        old_class == _classify_rating(old_rating)
        new_class == _classify_rating(new_rating)
    IN  IF Contains(action_lower, <<"u", "p", "g", "r", "a", "d", "e">>) THEN "upgrade"
        ELSE IF Contains(action_lower, <<"d", "o", "w", "n", "g", "r", "a", "d", "e">>) THEN "downgrade"
        ELSE IF Contains(action_lower, <<"i", "n", "i", "t", "i", "a", "t">>) \/ Contains(action_lower, <<"s", "t", "a", "r", "t">>)
             THEN "initiated"
        ELSE IF Contains(action_lower, <<"r", "e", "i", "t", "e", "r", "a", "t">>) \/ Contains(action_lower, <<"m", "a", "i", "n", "t", "a", "i", "n">>)
             THEN "reiterated"
        ELSE IF RatingOrder(new_class) > RatingOrder(old_class) THEN "upgrade"
        ELSE IF RatingOrder(new_class) < RatingOrder(old_class) THEN "downgrade"
        ELSE "reiterated"

\* _is_premium_broker(broker)
_is_premium_broker(broker_name) ==
    LET broker_lower == Lower(broker_name)
    IN  \E i \in 1..Len(premium_brokers) :
            Contains(broker_lower, Lower(premium_brokers[i]))

\* _calculate_rating_change_score(rating, broker, action_type, is_portfolio),
\* in tenths
_calculate_rating_change_score(rating_data, broker_name, type_of_action, in_portfolio) ==
    LET new_rating == Lower(Get(rating_data, "newGrade", <<>>))
        prev_rating == Lower(Get(rating_data, "previousGrade", <<>>))
    IN  50
        + (IF in_portfolio THEN 30 ELSE 0)
        + (IF _is_premium_broker(broker_name) THEN 30 ELSE 0)
        + (IF type_of_action = "downgrade" THEN 20
           ELSE IF type_of_action = "upgrade" THEN 15
           ELSE IF type_of_action = "initiated" THEN 10
           ELSE 0)
        + (IF Contains(new_rating, <<"s", "t", "r", "o", "n", "g", " ", "b", "u", "y">>) THEN 20
           ELSE IF Contains(new_rating, <<"b", "u", "y">>) \/ Contains(new_rating, <<"o", "u", "t", "p", "e", "r", "f", "o", "r", "m">>) THEN 15
           ELSE IF Contains(new_rating, <<"s", "e", "l", "l">>) \/ Contains(new_rating, <<"u", "n", "d", "e", "r", "p", "e", "r", "f", "o", "r", "m">>) THEN 20
           ELSE 0)
        + (IF \/ Contains(prev_rating, <<"b", "u", "y">>) /\ Contains(new_rating, <<"s", "e", "l", "l">>)
              \/ Contains(prev_rating, <<"s", "e", "l", "l">>) /\ Contains(new_rating, <<"b", "u", "y">>)
           THEN 30 ELSE 0)

\* rating.get('previousGrade', 'N/A')
NotAvailable == <<"N", "/", "A">>

\* rating.get('analystCompany', 'Unknown')
UnknownBroker == <<"U", "n", "k", "n", "o", "w", "n">>

\* abs(x)
Abs(x) == IF x < 0 THEN -x ELSE x

\* _calculate_target_score with the tiers tested lowest first
CalculateTargetScoreLowestTierFirst(pct, broker_name, in_portfolio) ==
    30
    + (IF in_portfolio THEN 20 ELSE 0)
    + (IF _is_premium_broker(broker_name) THEN 20 ELSE 0)
    + (IF Abs(pct) >= 15 THEN 10
       ELSE IF Abs(pct) >= 20 THEN 20
       ELSE IF Abs(pct) >= 30 THEN 30
       ELSE 0)
    + (IF pct < 0 THEN 10 ELSE 0)

\* _calculate_target_score(change_pct, broker, is_portfolio), in tenths
_calculate_target_score(pct, broker_name, in_portfolio) ==
    30
    + (IF in_portfolio THEN 20 ELSE 0)
    + (IF _is_premium_broker(broker_name) THEN 20 ELSE 0)
    + (IF Abs(pct) >= 30 THEN 30
       ELSE IF Abs(pct) >= 20 THEN 20
       ELSE IF Abs(pct) >= 15 THEN 10
       ELSE 0)
    + (IF pct < 0 THEN 10 ELSE 0)

(***************************************************************************)
(* The cached news analysis (services/ai_analyzer.py).  A text the AI or   *)
(* the cache delivers is a sequence of tokens: a code fence, a blank, a    *)
(* run of other characters, or a JSON document with its value.             *)
(***************************************************************************)
\* the opening fence of a json code block, and a bare fence
FenceJson == [kind |-> "fence_json"]
Fence == [kind |-> "fence"]
Blank == [kind |-> "blank"]
Prose == [kind |-> "prose"]
JsonObject(value) == [kind |-> "json", type |-> "object", value |-> value]
JsonArray == [kind |-> "json", type |-> "array", value |-> <<>>]

\* text.replace(token, empty string)
Without(text, token) ==
    LET Keep(t) == t # token
    IN  SelectSeq(text, Keep)

\* str.strip() on a text of tokens
RECURSIVE StripBlanks(_)
StripBlanks(text) ==
    IF text = <<>> THEN text
    ELSE IF text[1] = Blank THEN StripBlanks(Tail(text))
    ELSE IF text[Len(text)] = Blank THEN StripBlanks(SubSeq(text, 1, Len(text) - 1))
    ELSE text

\* json.loads(text): the value of the one document the text holds, blanks
\* around it allowed; anything else raises
JsonLoadsRaises(text) ==
    LET body == StripBlanks(text)
    IN  ~(Len(body) = 1 /\ body[1].kind = "json")

JsonLoads(text) == StripBlanks(text)[1]

\* json.dumps(result)
JsonDumps(result) == <<JsonObject(result)>>

\* dict.setdefault(k, v)
SetDefault(d, k, v) == IF k \in DOMAIN d THEN d ELSE SetKey(d, k, v)

\* f"analysis:{news_item.get('url', '')}"
CacheKey(item) == <<"a", "n", "a", "l", "y", "s", "i", "s", ":">> \o Get(item, "url", <<>>)

\* the cache check: the call returns the cached analysis if there is a
\* client, the read succeeds, a text is stored and it parses
CacheHit(item, client, store, get_fails) ==
    /\ client # None
    /\ ~get_fails
    /\ CacheKey(item) \in DOMAIN store
    /\ store[CacheKey(item)] # <<>>
    /\ ~JsonLoadsRaises(store[CacheKey(item)])

\* the try block up to json.loads raises: the request fails, the message
\* has no content, the text is not one JSON document, or the document is
\* not an object and setdefault fails on it
TryRaises(response) ==
    \/ "raises" \in DOMAIN response
    \/ response.content = <<>>
    \/ LET response_text ==
               StripBlanks(Without(Without(StripBlanks(response.content[1]),
                                           FenceJson), Fence))
       IN  \/ JsonLoadsRaises(response_text)
           \/ JsonLoads(response_text).type # "object"

\* result after the setdefault calls
ParsedResult(item, response) ==
    LET title == Get(item, "title", <<>>)
        response_text ==
            StripBlanks(Without(Without(StripBlanks(response.content[1]),
                                        FenceJson), Fence))
        result == JsonLoads(response_text).value
    IN  SetDefault(SetDefault(SetDefault(SetDefault(SetDefault(SetDefault(result,
            "impact_score", 5),
            "sentiment", 0),
            "urgency", "Days"),
            "category", "Other"),
            "summary", Take(title, 150)),
            "affected_sector", "Individual Stock Only")

\* the dict the except block returns
FallbackRecord(item) ==
    LET title == Get(item, "title", <<>>)
        words == IF title # <<>> THEN Take(Split(title), 10) ELSE <<>>
        short_summary == IF words # <<>> THEN Join(words) ELSE <<"N", "e", "w", "s", " ", "u", "p", "d", "a", "t", "e">>
    IN  [impact_score |-> 5,
         sentiment |-> 0,
         urgency |-> "Days",
         category |-> "Other",
         summary |-> short_summary,
         keywords |-> "market, update, news",
         affected_sector |-> "Individual Stock Only"]

\* analyze_news_impact with the fallback record stored in the cache
AnalyzeNewsImpactCachingFallback(item, client, store, response, get_fails, setex_fails) ==
    IF CacheHit(item, client, store, get_fails)
    THEN [raised |-> FALSE, called |-> FALSE, store |-> store,
          result |-> JsonLoads(store[CacheKey(item)]).value]
    ELSE LET result == IF TryRaises(response) THEN FallbackRecord(item)
                       ELSE ParsedResult(item, response)
         IN  [raised |-> FALSE, called |-> TRUE, result |-> result,
              store |-> IF client # None /\ ~setex_fails
                        THEN SetKey(store, CacheKey(item), JsonDumps(result))
                        ELSE store]

\* analyze_news_impact(news_item, user_holding): whether it raised, whether
\* it made the AI request, what it returned and what the cache then holds
analyze_news_impact(item, client, store, response, get_fails, setex_fails) ==
    IF CacheHit(item, client, store, get_fails)
    THEN [raised |-> FALSE, called |-> FALSE, store |-> store,
          result |-> JsonLoads(store[CacheKey(item)]).value]
    ELSE IF TryRaises(response)
    THEN [raised |-> FALSE, called |-> TRUE, store |-> store,
          result |-> FallbackRecord(item)]
    ELSE LET result == ParsedResult(item, response)
         IN  [raised |-> FALSE, called |-> TRUE, result |-> result,
              store |-> IF client # None /\ ~setex_fails
                        THEN SetKey(store, CacheKey(item), JsonDumps(result))
                        ELSE store]

\* analyze_news_impact_async(news_item, user_holding): the same steps around
\* the awaited request
analyze_news_impact_async(item, client, store, response, get_fails, setex_fails) ==
    IF CacheHit(item, client, store, get_fails)
    THEN [raised |-> FALSE, called |-> FALSE, store |-> store,
          result |-> JsonLoads(store[CacheKey(item)]).value]
    ELSE IF TryRaises(response)
    THEN [raised |-> FALSE, called |-> TRUE, store |-> store,
          result |-> FallbackRecord(item)]
    ELSE LET result == ParsedResult(item, response)
         IN  [raised |-> FALSE, called |-> TRUE, result |-> result,
              store |-> IF client # None /\ ~setex_fails
                        THEN SetKey(store, CacheKey(item), JsonDumps(result))
                        ELSE store]

(***************************************************************************)
(* The batch analysis (services/ai_analyzer.py).  responses[i] is what the *)
(* AI returns for the request made for item i, whenever that request is    *)
(* made.                                                                   *)
(***************************************************************************)
\* the loop of batch_analyze from item k on: each item is analyzed to the
\* end, cache write included, before the next one is looked at
RECURSIVE BatchAnalyzeFrom(_, _, _, _, _, _)
BatchAnalyzeFrom(items, client, store, answers, k, done) ==
    IF k > Len(items) THEN [results |-> done, store |-> store]
    ELSE LET out == analyze_news_impact(items[k], client, store, answers[k],
                                        FALSE, FALSE)
             news_with_analysis == SetKey(items[k], "analysis", out.result)
         IN  BatchAnalyzeFrom(items, client, out.store, answers, k + 1,
                              Append(done, news_with_analysis))

\* batch_analyze(news_items, user_holdings)
batch_analyze(items, client, store, answers) ==
    BatchAnalyzeFrom(items, client, store, answers, 1, <<>>)

\* a coroutine of analyze_news_impact_async up to its await: it has read
\* the cache and either returned the cached analysis or sent its request
TaskAtAwait(item, client, store) ==
    IF CacheHit(item, client, store, FALSE)
    THEN [pc |-> "done", result |-> JsonLoads(store[CacheKey(item)]).value]
    ELSE [pc |-> "awaiting", result |-> <<>>]

\* the coroutine after its await: what it returns for the response and
\* what the cache then holds
TaskAfterAwait(item, client, store, response) ==
    LET out == analyze_news_impact_async(item, client, <<>>, response, FALSE, FALSE)
    IN  [result |-> out.result,
         store |-> IF out.store = <<>> THEN store
                   ELSE SetKey(store, CacheKey(item), out.store[CacheKey(item)])]

\* [{**news, 'analysis': analysis} for news, analysis in zip(news_items, analyses)]
Rejoined(items, done) ==
    [i \in 1..Len(items) |-> SetKey(items[i], "analysis", done[i].result)]

(***************************************************************************)
(* The monitoring cycle (main.py).  A feed is what the collaborators of    *)
(* process_user_portfolio deliver during one call: the macro events and    *)
(* analyst updates with the analysis made of each, the news items fetched, *)
(* the analysis the AI analyzer returns for each url, whether the database *)
(* accepts the article rows, whether the rating feed reports upgrades and  *)
(* whether the mail server accepts the message.                            *)
(***************************************************************************)
\* the methods BrokerUpgradesService defines
BrokerUpgradesServiceMethods ==
    {"_classify_rating", "_determine_action_type", "get_recent_rating_changes",
     "_is_premium_broker", "_calculate_rating_change_score",
     "_calculate_target_score", "_separate_by_type_and_portfolio",
     "get_recent_upgrades", "get_rating_summary_stats", "format_alert_message"}

\* the loop of main.py over the deduplicated news: each item is analyzed,
\* saved and gated; a database error ends the loop with an exception
RECURSIVE AnalyzedNews(_, _, _)
AnalyzedNews(list, feed, kept) ==
    IF list = <<>> THEN [raised |-> "", news |-> kept]
    ELSE IF ~feed.db_ok THEN [raised |-> "DatabaseError", news |-> kept]
    ELSE LET news == list[1]
             verdict == feed.ai[news.url]
         IN  AnalyzedNews(Tail(list), feed,
                 IF should_notify(verdict)
                 THEN Append(kept, SetKey(SetKey(news, "analysis", verdict),
                                          "article_id", news.url))
                 ELSE kept)

\* the loop over the analyzed analyst updates: the ones at or above the
\* threshold
ImportantUpdates(analyzed) ==
    LET Important(update) == Get(update.analysis, "impact_score", 0) >= impact_threshold
    IN  SelectSeq(analyzed, Important)

\* the rows create_notification_record writes for the news of an email
NotificationRows(user, analyzed_news) ==
    [k \in 1..Len(analyzed_news) |->
        [user_id |-> user.id, article_id |-> analyzed_news[k].article_id,
         notification_type |-> "email"]]

\* what a call of process_user_portfolio has done when it is over
Outcome(user, error, stages, macro, news, analyst, emails, rows) ==
    [user |-> user.id, raised |-> error, stages |-> stages, macro |-> macro,
     news |-> news, analyst |-> analyst, sent |-> emails, rows |-> rows]

\* process_user_portfolio writing the notification row of an article as
\* soon as the article has passed the gate, whatever becomes of the email
RecordingAtGate(user, feed, analyzed_macro, scored) ==
    IF scored.raised # ""
    THEN Outcome(user, scored.raised, <<"macro", "fetch", "dedup", "score">>,
                 analyzed_macro, scored.news, <<>>, <<>>,
                 NotificationRows(user, scored.news))
    ELSE Outcome(user, "AttributeError",
                 <<"macro", "fetch", "dedup", "score", "gate", "analyst", "broker">>,
                 analyzed_macro, scored.news, ImportantUpdates(feed.analyst), <<>>,
                 NotificationRows(user, scored.news))

ProcessUserPortfolioRecordingAtGate(user, feed) ==
    IF user.symbols = <<>>
    THEN Outcome(user, "", <<>>, <<>>, <<>>, <<>>, <<>>, <<>>)
    ELSE RecordingAtGate(user, feed,
             IF feed.macro # <<>>
             THEN NotifyWorthy(batch_analyze_macro_events(feed.macro))
             ELSE <<>>,
             AnalyzedNews(UniqueNews(feed.news,
                                     GroupsAt(feed.news, Positions(Len(feed.news)))),
                          feed, <<>>))

\* process_user_portfolio from the analyst updates on, given the macro
\* events and the news that passed their gates and how the news loop ended
AfterNewsLoop(user, feed, analyzed_macro, scored) ==
    LET analyzed_news == scored.news
        analyzed_analyst == ImportantUpdates(feed.analyst)
        all == analyzed_macro \o analyzed_news \o analyzed_analyst
        gated == <<"macro", "fetch", "dedup", "score", "gate", "analyst">>
    IN  IF scored.raised # ""
        THEN Outcome(user, scored.raised, <<"macro", "fetch", "dedup", "score">>,
                     analyzed_macro, analyzed_news, <<>>, <<>>, <<>>)
        ELSE IF "get_recent_upgrades" \notin BrokerUpgradesServiceMethods
                  \/ "get_upgrade_summary_stats" \notin BrokerUpgradesServiceMethods
        THEN Outcome(user, "AttributeError", Append(gated, "broker"),
                     analyzed_macro, analyzed_news, analyzed_analyst, <<>>, <<>>)
        ELSE IF all # <<>> \/ feed.has_upgrades
        THEN LET success == feed.smtp_ok
                 email == [to |-> user.id, alerts |-> all, success |-> success]
             IN  Outcome(user, "",
                         gated \o (IF success THEN <<"broker", "aggregate", "send", "record">>
                                   ELSE <<"broker", "aggregate", "send">>),
                         analyzed_macro, analyzed_news, analyzed_analyst, <<email>>,
                         IF success THEN NotificationRows(user, analyzed_news) ELSE <<>>)
        ELSE Outcome(user, "", gated \o <<"broker", "aggregate">>,
                     analyzed_macro, analyzed_news, analyzed_analyst, <<>>, <<>>)

\* process_user_portfolio(db, user): the stages it went through, the items
\* that passed their gates, the emails it had send_email send, the
\* notification rows it wrote and the exception it ended with, if any
process_user_portfolio(user, feed) ==
    IF user.symbols = <<>>
    THEN Outcome(user, "", <<>>, <<>>, <<>>, <<>>, <<>>, <<>>)
    ELSE AfterNewsLoop(user, feed,
             IF feed.macro # <<>>
             THEN NotifyWorthy(batch_analyze_macro_events(feed.macro))
             ELSE <<>>,
             AnalyzedNews(UniqueNews(feed.news,
                                     GroupsAt(feed.news, Positions(Len(feed.news)))),
                          feed, <<>>))

\* the loop left at the first user whose call raised
AfterUserStopOnError(k, error) == IF error # "" THEN Len(users) + 1 ELSE k + 1

\* where the loop of run_monitoring_cycle goes on after the call for the
\* user at position k: the except clause continues with the next user
AfterUser(k, error) == k + 1

(***************************************************************************)
(* The news fetch (services/fmp_client.py).  A publishedDate is the text   *)
(* the feed delivers: its format, and how many hours before now the moment *)
(* it names lies.                                                          *)
(***************************************************************************)
\* news_item.get('publishedDate', '') when the key is absent
EmptyDate == [format |-> "empty", age |-> 0]

\* datetime.strptime(text, '%Y-%m-%d %H:%M:%S'): ValueError unless the text
\* has that format, TypeError if it is not a text
Strptime(date) ==
    IF date.format = "ymd_hms" THEN [raises |-> "", age |-> date.age]
    ELSE IF date.format = "none" THEN [raises |-> "TypeError", age |-> 0]
    ELSE [raises |-> "ValueError", age |-> 0]

\* _is_quality_source(news_item): no blocked source in site or url and no
\* clickbait keyword in the title
_is_quality_source(item) ==
    LET blocked_sources ==
            <<<<"y", "o", "u", "t", "u", "b", "e", ".", "c", "o", "m">>, <<"y", "o", "u", "t", "u", ".", "b", "e">>,
             <<"t", "i", "k", "t", "o", "k", ".", "c", "o", "m">>, <<"i", "n", "s", "t", "a", "g", "r", "a", "m", ".", "c", "o", "m">>,
             <<"f", "a", "c", "e", "b", "o", "o", "k", ".", "c", "o", "m">>, <<"r", "e", "d", "d", "i", "t", ".", "c", "o", "m">>,
             <<"t", "w", "i", "t", "t", "e", "r", ".", "c", "o", "m">>, <<"x", ".", "c", "o", "m">>,
             <<"s", "e", "e", "k", "i", "n", "g", " ", "a", "l", "p", "h", "a">>,
             <<"s", "e", "e", "k", "i", "n", "g", "a", "l", "p", "h", "a", ".", "c", "o", "m">>, <<"b", "e", "n", "z", "i", "n", "g", "a", ".", "c", "o", "m">>,
             <<"f", "o", "o", "l", ".", "c", "o", "m">>, <<"m", "o", "t", "l", "e", "y", "f", "o", "o", "l", ".", "c", "o", "m">>,
             <<"z", "a", "c", "k", "s", ".", "c", "o", "m">>, <<"s", "t", "o", "c", "k", "t", "w", "i", "t", "s", ".", "c", "o", "m">>,
             <<"t", "e", "c", "h", "c", "r", "u", "n", "c", "h", ".", "c", "o", "m">>, <<"g", "i", "z", "m", "o", "d", "o", ".", "c", "o", "m">>,
             <<"e", "n", "g", "a", "d", "g", "e", "t", ".", "c", "o", "m">>, <<"t", "h", "e", "v", "e", "r", "g", "e", ".", "c", "o", "m">>,
             <<"a", "r", "s", "t", "e", "c", "h", "n", "i", "c", "a", ".", "c", "o", "m">>,
             <<"i", "n", "v", "e", "s", "t", "o", "r", "p", "l", "a", "c", "e", ".", "c", "o", "m">>,
             <<"g", "u", "r", "u", "f", "o", "c", "u", "s", ".", "c", "o", "m">>, <<"t", "i", "p", "r", "a", "n", "k", "s", ".", "c", "o", "m">>>>
        clickbait_keywords ==
            <<<<"d", "r", "a", "m", "a">>, <<"w", "a", "r">>, <<"b", "a", "t", "t", "l", "e">>, <<"f", "i", "g", "h", "t">>, <<"s", "l", "a", "m", "s">>,
             <<"d", "e", "s", "t", "r", "o", "y", "s">>, <<"y", "o", "u", " ", "w", "o", "n", "'", "t", " ", "b", "e", "l", "i", "e", "v", "e">>,
             <<"s", "h", "o", "c", "k", "i", "n", "g">>, <<"m", "i", "n", "d", "-", "b", "l", "o", "w", "i", "n", "g">>,
             <<"t", "h", "i", "s", " ", "i", "s", " ", "w", "h", "y">>, <<"h", "e", "r", "e", "'", "s", " ", "w", "h", "y">>,
             <<"t", "h", "e", " ", "r", "e", "a", "l", " ", "r", "e", "a", "s", "o", "n">>,
             <<"w", "h", "a", "t", " ", "y", "o", "u", " ", "n", "e", "e", "d", " ", "t", "o", " ", "k", "n", "o", "w">>,
             <<"e", "v", "e", "r", "y", "t", "h", "i", "n", "g", " ", "y", "o", "u", " ", "n", "e", "e", "d">>,
             <<"w", "i", "l", "l", " ", "s", "h", "o", "c", "k", " ", "y", "o", "u">>, <<"v", "e", "r", "s", "u", "s">>, <<"v", "s", ".">>,
             <<"t", "h", "a", "n", "k", "s", "g", "i", "v", "i", "n", "g">>, <<"c", "h", "r", "i", "s", "t", "m", "a", "s">>, <<"h", "o", "l", "i", "d", "a", "y">>>>
        site == Lower(Get(item, "site", <<>>))
        url == Lower(Get(item, "url", <<>>))
        title == Lower(Get(item, "title", <<>>))
    IN  /\ ~AnyIn(blocked_sources, site)
        /\ ~AnyIn(blocked_sources, url)
        /\ ~AnyIn(clickbait_keywords, title)

\* _is_trusted_source(news_item)
_is_trusted_source(item) ==
    LET trusted_sources ==
            <<<<"r", "e", "u", "t", "e", "r", "s", ".", "c", "o", "m">>, <<"b", "l", "o", "o", "m", "b", "e", "r", "g", ".", "c", "o", "m">>,
             <<"w", "s", "j", ".", "c", "o", "m">>, <<"f", "t", ".", "c", "o", "m">>, <<"m", "a", "r", "k", "e", "t", "w", "a", "t", "c", "h", ".", "c", "o", "m">>,
             <<"b", "a", "r", "r", "o", "n", "s", ".", "c", "o", "m">>, <<"c", "n", "b", "c", ".", "c", "o", "m">>,
             <<"i", "n", "v", "e", "s", "t", "o", "r", "s", ".", "c", "o", "m">>, <<"f", "o", "r", "t", "u", "n", "e", ".", "c", "o", "m">>,
             <<"f", "o", "r", "b", "e", "s", ".", "c", "o", "m">>,
             <<"b", "u", "s", "i", "n", "e", "s", "s", "i", "n", "s", "i", "d", "e", "r", ".", "c", "o", "m">>,
             <<"t", "h", "e", "s", "t", "r", "e", "e", "t", ".", "c", "o", "m">>, <<"i", "n", "v", "e", "s", "t", "o", "r", ".">>, <<"i", "r", ".">>,
             <<"n", "e", "w", "s", "r", "o", "o", "m", ".">>, <<"e", "c", "o", "n", "o", "m", "i", "s", "t", ".", "c", "o", "m">>,
             <<"f", "i", "n", "a", "n", "c", "i", "a", "l", "-", "t", "i", "m", "e", "s", ".", "c", "o", "m">>,
             <<"m", "o", "r", "n", "i", "n", "g", "s", "t", "a", "r", ".", "c", "o", "m">>, <<"k", "i", "p", "l", "i", "n", "g", "e", "r", ".", "c", "o", "m">>>>
    IN  \/ AnyIn(trusted_sources, Lower(Get(item, "site", <<>>)))
        \/ AnyIn(trusted_sources, Lower(Get(item, "url", <<>>)))

\* _is_recent_actual_news(news_item, max_hours): a date that does not parse
\* or is older than max_hours rejects the item; then the wording decides,
\* and the source when the wording does not
_is_recent_actual_news(item, max_hours) ==
    LET news_indicators ==
            <<<<"a", "n", "n", "o", "u", "n", "c", "e", "d">>, <<"r", "e", "p", "o", "r", "t", "s">>, <<"f", "i", "l", "i", "n", "g">>, <<"s", "e", "c">>,
             <<"e", "a", "r", "n", "i", "n", "g", "s">>, <<"r", "e", "v", "e", "n", "u", "e">>, <<"p", "r", "o", "f", "i", "t">>,
             <<"q", "u", "a", "r", "t", "e", "r">>, <<"f", "i", "s", "c", "a", "l">>, <<"g", "u", "i", "d", "a", "n", "c", "e">>,
             <<"u", "p", "g", "r", "a", "d", "e">>, <<"d", "o", "w", "n", "g", "r", "a", "d", "e">>, <<"i", "n", "i", "t", "i", "a", "t", "e", "d">>,
             <<"p", "r", "i", "c", "e", " ", "t", "a", "r", "g", "e", "t">>, <<"m", "e", "r", "g", "e", "r">>,
             <<"a", "c", "q", "u", "i", "s", "i", "t", "i", "o", "n">>, <<"p", "a", "r", "t", "n", "e", "r", "s", "h", "i", "p">>, <<"d", "e", "a", "l">>,
             <<"a", "p", "p", "o", "i", "n", "t", "e", "d">>, <<"c", "e", "o">>, <<"c", "f", "o">>, <<"e", "x", "e", "c", "u", "t", "i", "v", "e">>,
             <<"f", "d", "a">>, <<"a", "p", "p", "r", "o", "v", "e", "d">>, <<"r", "e", "g", "u", "l", "a", "t", "o", "r", "y">>,
             <<"i", "n", "v", "e", "s", "t", "i", "g", "a", "t", "i", "o", "n">>>>
        opinion_indicators ==
            <<<<"m", "a", "y", " ", "b", "e">>, <<"c", "o", "u", "l", "d", " ", "b", "e">>, <<"m", "i", "g", "h", "t">>, <<"p", "e", "r", "h", "a", "p", "s">>,
             <<"o", "p", "i", "n", "i", "o", "n">>, <<"i", " ", "t", "h", "i", "n", "k">>, <<"w", "e", " ", "b", "e", "l", "i", "e", "v", "e">>,
             <<"i", "n", " ", "m", "y", " ", "v", "i", "e", "w">>, <<"a", "n", "a", "l", "y", "s", "i", "s">>, <<"c", "o", "m", "m", "e", "n", "t", "a", "r", "y">>,
             <<"p", "e", "r", "s", "p", "e", "c", "t", "i", "v", "e">>, <<"s", "h", "o", "u", "l", "d", " ", "y", "o", "u">>,
             <<"w", "h", "y", " ", "y", "o", "u", " ", "s", "h", "o", "u", "l", "d">>>>
        pub_date == Strptime(Get(item, "publishedDate", EmptyDate))
        text == Lower(Get(item, "text", <<>>) \o <<" ">> \o Get(item, "title", <<>>))
        has_news == AnyIn(news_indicators, text)
        has_opinion == AnyIn(opinion_indicators, text)
    IN  IF pub_date.raises # "" THEN FALSE
        ELSE IF pub_date.age > max_hours THEN FALSE
        ELSE IF has_news /\ ~has_opinion THEN TRUE
        ELSE IF has_opinion /\ ~has_news THEN FALSE
        ELSE _is_trusted_source(item)

\* get_stock_news(tickers, limit) without a cache client: the items of the
\* response that pass both filters, at most limit of them
get_stock_news(response, limit) ==
    LET Quality(item) == _is_quality_source(item) /\ _is_recent_actual_news(item, 48)
    IN  Take(SelectSeq(response, Quality), limit)

\* filter_recent_news(news_items, hours): [raises, filtered]; an item whose
\* date raises ValueError is kept, any other exception leaves the function
RECURSIVE filter_recent_news(_, _)
filter_recent_news(list, hours) ==
    IF list = <<>> THEN [raises |-> "", filtered |-> <<>>]
    ELSE LET pub_date == Strptime(Get(list[1], "publishedDate", EmptyDate))
             rest == filter_recent_news(Tail(list), hours)
         IN  IF pub_date.raises \notin {"", "ValueError"}
             THEN [raises |-> pub_date.raises, filtered |-> <<>>]
             ELSE IF rest.raises # "" THEN rest
             ELSE IF pub_date.raises = "ValueError" \/ pub_date.age <= hours
             THEN [raises |-> "", filtered |-> <<list[1]>> \o rest.filtered]
             ELSE rest

\* the loop of get_portfolio_news over recent_news: the first item of each
\* non-empty url
RECURSIVE UniqueByUrl(_, _)
UniqueByUrl(list, seen_urls) ==
    IF list = <<>> THEN <<>>
    ELSE LET url == Get(list[1], "url", <<>>)
         IN  IF url # <<>> /\ url \notin seen_urls
             THEN <<list[1]>> \o UniqueByUrl(Tail(list), seen_urls \cup {url})
             ELSE UniqueByUrl(Tail(list), seen_urls)

\* get_portfolio_news(symbols, hours) for at most five symbols: [raises,
\* unique_news]
get_portfolio_news(response, hours) ==
    LET recent == filter_recent_news(get_stock_news(response, 100), hours)
    IN  [raises |-> recent.raises,
         unique_news |-> IF recent.raises # "" THEN <<>>
                         ELSE UniqueByUrl(recent.filtered, {})]

(***************************************************************************)
(* The rating feed (services/broker_upgrades_service.py): the recent       *)
(* rating and target changes of the portfolio and the watchlist, cached    *)
(* for the hour under one key.  analyst_data maps a symbol to what         *)
(* get_price_targets returns for it; a change carries the fields the       *)
(* scoring, the sort and the split read.                                   *)
(***************************************************************************)
\* self.watchlist_symbols
watchlist_symbols ==
    <<"AAPL", "MSFT", "GOOGL", "AMZN", "META", "NVDA", "AMD", "TSLA",
      "NFLX", "ADBE", "JPM", "BAC", "WFC", "GS", "MS", "V", "MA", "JNJ",
      "UNH", "PFE", "ABBV", "MRK", "TMO", "LLY", "WMT", "HD", "MCD", "NKE",
      "SBUX", "DIS", "COST", "XOM", "CVX", "COP", "SLB", "BA", "CAT", "GE",
      "HON", "UPS">>

\* pub_date >= cutoff_time, after strptime of the published date
PublishedSince(entry, hours) ==
    LET pub_date == Strptime(Get(entry, "publishedDate", EmptyDate))
    IN  pub_date.raises = "" /\ pub_date.age <= hours

\* ((new_target - current_price) / current_price) * 100, for the whole
\* percentages of the feeds
ChangePct(target) ==
    ((Get(target, "priceTarget", 0) - Get(target, "priceWhenPosted", 0)) * 100)
        \div Get(target, "priceWhenPosted", 0)

\* the target passes: both prices set and the move at least +15% or -10%
SignificantTarget(target) ==
    /\ Get(target, "priceWhenPosted", 0) # 0
    /\ Get(target, "priceTarget", 0) # 0
    /\ (ChangePct(target) >= 15 \/ ChangePct(target) <= -10)

\* what the loop over all_symbols appends: for every symbol of the
\* portfolio and the watchlist, its recent rating changes and its recent
\* significant targets
AllChanges(portfolio_symbols, data, hours) ==
    LET all_symbols == ToSet(portfolio_symbols \o watchlist_symbols)
        \* the change_info of a rating change
        RatingChangeInfo(symbol, rating_data) ==
            LET broker_name == Get(rating_data, "analystCompany", UnknownBroker)
                old_rating == Get(rating_data, "previousGrade", NotAvailable)
                new_rating == Get(rating_data, "newGrade", NotAvailable)
                type_of_action == _determine_action_type(Get(rating_data, "action", <<>>),
                                                         old_rating, new_rating)
            IN  [symbol |-> symbol,
                 broker |-> broker_name,
                 action_type |-> type_of_action,
                 new_rating_class |-> _classify_rating(new_rating),
                 timestamp |-> [type |-> "datetime", age |-> rating_data.publishedDate.age],
                 score |-> _calculate_rating_change_score(rating_data, broker_name, type_of_action,
                                                          symbol \in ToSet(portfolio_symbols)),
                 is_premium_broker |-> _is_premium_broker(broker_name),
                 is_portfolio |-> symbol \in ToSet(portfolio_symbols)]
        \* the change_info of a price target
        TargetChangeInfo(symbol, target) ==
            LET broker_name == Get(target, "analystCompany", UnknownBroker)
            IN  [symbol |-> symbol,
                 broker |-> broker_name,
                 action_type |-> IF ChangePct(target) >= 15 THEN "target_raised" ELSE "target_lowered",
                 new_rating_class |-> IF ChangePct(target) > 0 THEN "bullish" ELSE "bearish",
                 timestamp |-> [type |-> "datetime", age |-> target.publishedDate.age],
                 score |-> _calculate_target_score(ChangePct(target), broker_name,
                                                   symbol \in ToSet(portfolio_symbols)),
                 is_premium_broker |-> _is_premium_broker(broker_name),
                 is_portfolio |-> symbol \in ToSet(portfolio_symbols)]
        RatingsOf(symbol) == Get(Get(data, symbol, <<>>), "rating_changes", <<>>)
        TargetsOf(symbol) == Get(Get(data, symbol, <<>>), "price_targets", <<>>)
        ChangesOf(symbol) ==
            {RatingChangeInfo(symbol, RatingsOf(symbol)[i]) :
                i \in {j \in 1..Len(RatingsOf(symbol)) :
                          PublishedSince(RatingsOf(symbol)[j], hours)}}
            \cup
            {TargetChangeInfo(symbol, TargetsOf(symbol)[i]) :
                i \in {j \in 1..Len(TargetsOf(symbol)) :
                          /\ PublishedSince(TargetsOf(symbol)[j], hours)
                          /\ SignificantTarget(TargetsOf(symbol)[j])}}
    IN  UNION {ChangesOf(symbol) : symbol \in all_symbols}

\* the order of all_changes.sort(key=(score, timestamp), reverse=True)
SortsBefore(a, b) ==
    \/ a.score > b.score
    \/ a.score = b.score /\ a.timestamp.age <= b.timestamp.age

RECURSIVE SortedChanges(_)
SortedChanges(changes) ==
    IF changes = {} THEN <<>>
    ELSE LET first == CHOOSE a \in changes : \A b \in changes : SortsBefore(a, b)
         IN  <<first>> \o SortedChanges(changes \ {first})

\* json.loads(json.dumps(all_changes, default=str)): the timestamp comes
\* back as a text, every other field as it was
CachedChanges(all_changes) ==
    [i \in 1..Len(all_changes) |->
        [all_changes[i] EXCEPT !.timestamp = [type |-> "str", age |-> @.age]]]

\* for/if of _separate_by_type_and_portfolio: the changes of one bucket
Bucket(all_changes, portfolio_symbols, in_portfolio, negative) ==
    LET is_positive(change) == change.action_type \in {"upgrade", "initiated", "target_raised"}
        is_negative(change) ==
            \/ change.action_type \in {"downgrade", "target_lowered"}
            \/ change.action_type = "initiated" /\ change.new_rating_class = "bearish"
        Belongs(change) ==
            /\ (change.symbol \in ToSet(portfolio_symbols)) = in_portfolio
            /\ IF negative THEN is_negative(change)
               ELSE ~is_negative(change) /\ is_positive(change)
    IN  Take(SelectSeq(all_changes, Belongs), 10)

\* _separate_by_type_and_portfolio(all_changes, portfolio_symbols)
_separate_by_type_and_portfolio(all_changes, portfolio_symbols) ==
    [portfolio_upgrades |-> Bucket(all_changes, portfolio_symbols, TRUE, FALSE),
     portfolio_downgrades |-> Bucket(all_changes, portfolio_symbols, TRUE, TRUE),
     market_upgrades |-> Bucket(all_changes, portfolio_symbols, FALSE, FALSE),
     market_downgrades |-> Bucket(all_changes, portfolio_symbols, FALSE, TRUE)]

\* get_recent_rating_changes(portfolio_symbols, hours) of a service whose
\* redis_client is client and whose cache holds store under the key of the
\* hour (<<>>: no such key); returns the result and the cache it leaves
get_recent_rating_changes(portfolio_symbols, client, store, data, hours) ==
    IF client # None /\ store # <<>>
    THEN [result |-> _separate_by_type_and_portfolio(store, portfolio_symbols),
          store |-> store]
    ELSE LET all_changes == SortedChanges(AllChanges(portfolio_symbols, data, hours))
         IN  [result |-> _separate_by_type_and_portfolio(all_changes, portfolio_symbols),
              store |-> IF client # None /\ all_changes # <<>>
                        THEN CachedChanges(all_changes)
                        ELSE store]

(***************************************************************************)
(* The digest: the order in which format_notification_email renders the    *)
(* items it is given (services/notification_service.py).                   *)
(***************************************************************************)
\* the tests of the list comprehensions that separate the alert types
IsNewsItem(item) ==
    "analysis" \in DOMAIN item /\ "type" \notin DOMAIN item /\ "event" \notin DOMAIN item

IsAnalystItem(item) ==
    "type" \in DOMAIN item /\ Get(item, "type", None) \in {"price_target", "rating_change"}

IsMacroItem(item) == "event" \in DOMAIN item

\* item.get('analysis', {}).get('urgency') in ['Immediate', 'Hours']
HasUrgentAnalysis(item) ==
    Get(Get(item, "analysis", <<>>), "urgency", None) \in {"Immediate", "Hours"}

HasNormalAnalysis(item) == ~HasUrgentAnalysis(item)

news_of(alerts) == SelectSeq(alerts, IsNewsItem)
analyst_of(alerts) == SelectSeq(alerts, IsAnalystItem)
macro_of(alerts) == SelectSeq(alerts, IsMacroItem)

\* urgent_all with the company news ahead of the macro events
UrgentAllNewsFirst(alerts) ==
    SelectSeq(news_of(alerts), HasUrgentAnalysis)
        \o SelectSeq(macro_of(alerts), HasUrgentAnalysis)
        \o SelectSeq(analyst_of(alerts), HasUrgentAnalysis)

\* urgent_all = urgent_macro + urgent_news + urgent_analyst
urgent_all(alerts) ==
    SelectSeq(macro_of(alerts), HasUrgentAnalysis)
        \o SelectSeq(news_of(alerts), HasUrgentAnalysis)
        \o SelectSeq(analyst_of(alerts), HasUrgentAnalysis)

normal_macro(alerts) == SelectSeq(macro_of(alerts), HasNormalAnalysis)
normal_analyst(alerts) == SelectSeq(analyst_of(alerts), HasNormalAnalysis)
normal_news(alerts) == SelectSeq(news_of(alerts), HasNormalAnalysis)

\* the formatter the urgent loop picks for an item
UrgentFormatter(item) ==
    IF "event" \in DOMAIN item THEN "_format_macro_item"
    ELSE IF "type" \in DOMAIN item THEN "_format_analyst_item"
    ELSE "_format_news_item"

\* the blocks one loop appends to html
Rendered(list, formatter, urgent) ==
    [i \in 1..Len(list) |->
        [item |-> list[i],
         formatter |-> IF urgent THEN UrgentFormatter(list[i]) ELSE formatter,
         urgent |-> urgent]]

\* format_notification_email(user_name, items): the urgent section, then
\* the normal macro events, analyst updates and company news
format_notification_email(alerts) ==
    Rendered(urgent_all(alerts), "", TRUE)
        \o Rendered(normal_macro(alerts), "_format_macro_item", FALSE)
        \o Rendered(normal_analyst(alerts), "_format_analyst_item", FALSE)
        \o Rendered(normal_news(alerts), "_format_news_item", FALSE)

(***************************************************************************)
(* State machine.  Every call is one action; a variable a call does not    *)
(* touch keeps its value.                                                  *)
(***************************************************************************)
SimilarityIdle == title1 = <<>> /\ title2 = <<>> /\ sim_result = <<0, 1>>

DeduplicatorIdle ==
    /\ news_items = <<>>
    /\ passed = <<>>
    /\ seen_groups = <<>>
    /\ returned = <<>>
    /\ grouped = <<>>

GateIdle == impact_threshold = 6 /\ analysis = <<>> /\ notify = FALSE

MacroIdle ==
    /\ macro_notify = FALSE
    /\ high_impact_macro = <<>>
    /\ analyzed_macro_events = <<>>

DigestIdle == all_alerts = <<>> /\ html = <<>>

BrokerIdle ==
    /\ rating = <<>>
    /\ broker = <<>>
    /\ is_portfolio = FALSE
    /\ action_type = ""
    /\ change_pct = 0
    /\ score = 0

AnalyzerIdle ==
    /\ news_item = <<>>
    /\ redis_client = None
    /\ cache = <<>>
    /\ ai_response = <<>>
    /\ ai_called = FALSE
    /\ raised = FALSE
    /\ analysis_result = <<>>

LaterIdle == MacroIdle /\ DigestIdle /\ BrokerIdle /\ AnalyzerIdle

BatchIdle ==
    /\ responses = <<>>
    /\ tasks = <<>>
    /\ results = <<>>
    /\ cache_at_call = <<>>

CycleIdle ==
    /\ user_table = <<>>
    /\ users = <<>>
    /\ cycle = "idle"
    /\ cursor = 1
    /\ db_open = FALSE
    /\ processed = <<>>
    /\ outcome = <<>>
    /\ sent = <<>>
    /\ notifications = <<>>

FetchIdle == api_news = <<>> /\ fetched = <<>>

RatingIdle == analyst_data = <<>> /\ ratings_cache = <<>> /\ rating_calls = <<>>

PipelineIdle == BatchIdle /\ CycleIdle /\ FetchIdle /\ RatingIdle

\* self._calculate_similarity(title1, title2)
CalculateSimilarity ==
    /\ op = "init"
    /\ sim_result' = _calculate_similarity(title1, title2)
    /\ op' = "_calculate_similarity"
    /\ UNCHANGED <<title1, title2, news_items, passed, seen_groups, returned,
                   grouped, impact_threshold, analysis, notify>>
    /\ UNCHANGED laterVars
    /\ UNCHANGED pipelineVars

\* returned = deduplicator.deduplicate(news_items)
Deduplicate ==
    /\ op = "init"
    /\ passed' = news_items
    /\ seen_groups' = GroupsAt(news_items, Positions(Len(news_items)))
    /\ returned' = UniqueNews(news_items, seen_groups')
    /\ news_items' = AfterCall(news_items, seen_groups', returned')
    /\ op' = "deduplicate"
    /\ UNCHANGED <<title1, title2, sim_result, grouped, impact_threshold,
                   analysis, notify>>
    /\ UNCHANGED laterVars
    /\ UNCHANGED pipelineVars

\* returned = deduplicator.deduplicate(returned): the output of one call
\* handed to a second call
DeduplicateAgain ==
    /\ op = "deduplicate"
    /\ passed' = returned
    /\ seen_groups' = GroupsAt(returned, Positions(Len(returned)))
    /\ returned' = UniqueNews(passed', seen_groups')
    /\ news_items' = AfterCall(passed', seen_groups', returned')
    /\ op' = "deduplicate_again"
    /\ UNCHANGED <<title1, title2, sim_result, grouped, impact_threshold,
                   analysis, notify>>
    /\ UNCHANGED laterVars
    /\ UNCHANGED pipelineVars

\* grouped = deduplicator.group_by_symbol(news_items): the items are
\* collected under their key and each list is replaced by its deduplicate
GroupBySymbol ==
    /\ op = "init"
    /\ passed' = news_items
    /\ seen_groups' = GroupsOfKeys(news_items, KeysFrom(news_items, 1, <<>>))
    /\ grouped' = [symbol \in {SymbolKey(news_items[k]) : k \in 1..Len(news_items)} |->
                      UniqueNews(news_items,
                                 GroupsOfSymbol(news_items, seen_groups', symbol))]
    /\ news_items' = AfterCall(news_items, seen_groups',
                               UniqueNews(news_items, seen_groups'))
    /\ op' = "group_by_symbol"
    /\ UNCHANGED <<title1, title2, sim_result, returned, impact_threshold,
                   analysis, notify>>
    /\ UNCHANGED laterVars
    /\ UNCHANGED pipelineVars

\* notify = ai_analyzer.should_notify(analysis)
ShouldNotify ==
    /\ op = "init"
    /\ notify' = should_notify(analysis)
    /\ op' = "should_notify"
    /\ UNCHANGED <<title1, title2, sim_result, news_items, passed, seen_groups,
                   returned, grouped, impact_threshold, analysis>>
    /\ UNCHANGED laterVars
    /\ UNCHANGED pipelineVars

\* macro_notify = correlation_analyzer.should_notify_macro(analysis), on a
\* fresh record or on one the company-news gate has judged
ShouldNotifyMacro ==
    /\ op \in {"init", "should_notify"}
    /\ macro_notify' = should_notify_macro(analysis)
    /\ op' = "should_notify_macro"
    /\ UNCHANGED <<similarityVars, dedupVars, gateVars, high_impact_macro,
                   analyzed_macro_events, digestVars, brokerVars,
                   analyzerVars>>
    /\ UNCHANGED pipelineVars

\* html = notifier.format_notification_email(user_name, all_alerts)
FormatNotificationEmail ==
    /\ op = "init"
    /\ html' = format_notification_email(all_alerts)
    /\ op' = "format_notification_email"
    /\ UNCHANGED <<similarityVars, dedupVars, gateVars, macroVars, all_alerts,
                   brokerVars, analyzerVars>>
    /\ UNCHANGED pipelineVars

\* action_type = self._determine_action_type(action, old_rating, new_rating)
\* on the fields of a rating change, as get_recent_rating_changes reads them
DetermineActionType ==
    /\ op = "init"
    /\ rating # <<>>
    /\ action_type' = _determine_action_type(Get(rating, "action", <<>>),
                                             Get(rating, "previousGrade", NotAvailable),
                                             Get(rating, "newGrade", NotAvailable))
    /\ op' = "_determine_action_type"
    /\ UNCHANGED <<similarityVars, dedupVars, gateVars, macroVars, digestVars,
                   rating, broker, is_portfolio, change_pct, score, analyzerVars>>
    /\ UNCHANGED pipelineVars

\* score = self._calculate_rating_change_score(rating, broker, action_type,
\*                                             symbol in portfolio_symbols)
CalculateRatingChangeScore ==
    /\ op = "_determine_action_type"
    /\ score' = _calculate_rating_change_score(rating, broker, action_type, is_portfolio)
    /\ op' = "_calculate_rating_change_score"
    /\ UNCHANGED <<similarityVars, dedupVars, gateVars, macroVars, digestVars,
                   rating, broker, is_portfolio, action_type, change_pct, analyzerVars>>
    /\ UNCHANGED pipelineVars

\* score = self._calculate_target_score(change_pct, broker,
\*                                      symbol in portfolio_symbols)
CalculateTargetScore ==
    /\ op = "init"
    /\ rating = <<>>
    /\ score' = _calculate_target_score(change_pct, broker, is_portfolio)
    /\ op' = "_calculate_target_score"
    /\ UNCHANGED <<similarityVars, dedupVars, gateVars, macroVars, digestVars,
                   rating, broker, is_portfolio, action_type, change_pct, analyzerVars>>
    /\ UNCHANGED pipelineVars

\* analysis_result = ai_analyzer.analyze_news_impact(news_item, holding);
\* a read or a write of the cache may fail
AnalyzeNewsImpact ==
    /\ op = "init"
    /\ news_item # <<>>
    /\ \E get_fails \in BOOLEAN : \E setex_fails \in BOOLEAN :
           LET out == analyze_news_impact(news_item, redis_client, cache, ai_response,
                                          get_fails, setex_fails)
           IN  /\ raised' = out.raised
               /\ ai_called' = out.called
               /\ analysis_result' = out.result
               /\ cache' = out.store
    /\ op' = "analyze_news_impact"
    /\ UNCHANGED <<similarityVars, dedupVars, gateVars, macroVars, digestVars,
                   brokerVars, news_item, redis_client, ai_response>>
    /\ UNCHANGED pipelineVars

\* analysis_result = await ai_analyzer.analyze_news_impact_async(news_item,
\*                                                               holding)
AnalyzeNewsImpactAsync ==
    /\ op = "init"
    /\ news_item # <<>>
    /\ \E get_fails \in BOOLEAN : \E setex_fails \in BOOLEAN :
           LET out == analyze_news_impact_async(news_item, redis_client, cache,
                                                ai_response, get_fails, setex_fails)
           IN  /\ raised' = out.raised
               /\ ai_called' = out.called
               /\ analysis_result' = out.result
               /\ cache' = out.store
    /\ op' = "analyze_news_impact_async"
    /\ UNCHANGED <<similarityVars, dedupVars, gateVars, macroVars, digestVars,
                   brokerVars, news_item, redis_client, ai_response>>
    /\ UNCHANGED pipelineVars

\* the macro step of process_user_portfolio: the events are analyzed in a
\* batch and the ones the macro gate lets through are kept for the notifier
ProcessMacroEvents ==
    /\ op = "init"
    /\ analyzed_macro_events' =
           IF high_impact_macro = <<>> THEN <<>>
           ELSE NotifyWorthy(batch_analyze_macro_events(high_impact_macro))
    /\ op' = "process_macro_events"
    /\ UNCHANGED <<similarityVars, dedupVars, gateVars, macro_notify,
                   high_impact_macro, digestVars, brokerVars, analyzerVars>>
    /\ UNCHANGED pipelineVars

\* results = ai_analyzer.batch_analyze(news_items, holdings)
BatchAnalyze ==
    /\ op = "init"
    /\ LET out == batch_analyze(news_items, redis_client, cache, responses)
       IN  /\ results' = out.results
           /\ cache' = out.store
    /\ op' = "batch_analyze"
    /\ UNCHANGED <<similarityVars, dedupVars, gateVars, macroVars, digestVars,
                   brokerVars, news_item, redis_client, ai_response, ai_called,
                   raised, analysis_result, responses, tasks, cache_at_call>>
    /\ UNCHANGED cycleVars
    /\ UNCHANGED fetchVars
    /\ UNCHANGED ratingVars

\* batch_analyze_async(news_items, holdings) up to its gather: an empty list
\* is answered at once, otherwise one coroutine per item is handed to
\* asyncio.gather
BatchAnalyzeAsync ==
    /\ op = "init"
    /\ IF news_items = <<>>
       THEN /\ op' = "batch_analyze_async"
            /\ tasks' = <<>>
       ELSE /\ op' = "gather"
            /\ tasks' = [i \in 1..Len(news_items) |-> [pc |-> "created", result |-> <<>>]]
    /\ results' = <<>>
    /\ UNCHANGED <<similarityVars, dedupVars, gateVars, laterVars, responses,
                   cache_at_call>>
    /\ UNCHANGED cycleVars
    /\ UNCHANGED fetchVars
    /\ UNCHANGED ratingVars

\* the event loop runs the tasks gather scheduled, in the order they were
\* handed over, each up to its await; no response is handled before every
\* task has had this first turn
StartTask ==
    /\ op = "gather"
    /\ \E i \in 1..Len(tasks) :
           /\ tasks[i].pc = "created"
           /\ \A j \in 1..(i - 1) : tasks[j].pc # "created"
           /\ tasks' = [tasks EXCEPT ![i] = TaskAtAwait(news_items[i], redis_client, cache)]
    /\ UNCHANGED <<op, similarityVars, dedupVars, gateVars, laterVars, responses,
                   results, cache_at_call>>
    /\ UNCHANGED cycleVars
    /\ UNCHANGED fetchVars
    /\ UNCHANGED ratingVars

\* the response to one of the pending requests arrives and its task runs to
\* the end; the responses arrive in any order
CompleteTask ==
    /\ op = "gather"
    /\ \A j \in 1..Len(tasks) : tasks[j].pc # "created"
    /\ \E i \in 1..Len(tasks) :
           /\ tasks[i].pc = "awaiting"
           /\ LET out == TaskAfterAwait(news_items[i], redis_client, cache, responses[i])
              IN  /\ tasks' = [tasks EXCEPT ![i] = [pc |-> "done", result |-> out.result]]
                  /\ cache' = out.store
    /\ UNCHANGED <<op, similarityVars, dedupVars, gateVars, macroVars, digestVars,
                   brokerVars, news_item, redis_client, ai_response, ai_called,
                   raised, analysis_result, responses, results, cache_at_call>>
    /\ UNCHANGED cycleVars
    /\ UNCHANGED fetchVars
    /\ UNCHANGED ratingVars

\* every task is done: gather returns the analyses in the order of the
\* tasks and batch_analyze_async returns the items with their analyses
GatherReturn ==
    /\ op = "gather"
    /\ \A j \in 1..Len(tasks) : tasks[j].pc = "done"
    /\ results' = Rejoined(news_items, tasks)
    /\ op' = "batch_analyze_async"
    /\ UNCHANGED <<similarityVars, dedupVars, gateVars, laterVars, responses,
                   tasks, cache_at_call>>
    /\ UNCHANGED cycleVars
    /\ UNCHANGED fetchVars
    /\ UNCHANGED ratingVars

\* --- the similarity scorer on generated headlines
InitSimilarity ==
    /\ op = "init"
    /\ title1 \in Titles
    /\ title2 \in Titles
    /\ sim_result = <<0, 1>>
    /\ DeduplicatorIdle
    /\ GateIdle
    /\ LaterIdle
    /\ PipelineIdle

NextSimilarity == CalculateSimilarity

SpecSimilarity == InitSimilarity /\ [][NextSimilarity]_vars

\* news_items is the list of one monitoring cycle over a feed: at most
\* MaxItems articles, as fetched (main.py deduplicates before the analysis)
\* or as analyzed
FetchedFrom(feed) ==
    \E n \in 0..MaxItems : \E list \in [1..n -> feed] : \E analyzed \in BOOLEAN :
        news_items = IF analyzed THEN WithAnalysis(WithUrls(list)) ELSE WithUrls(list)

\* news_items is the duplicate-detection scenario: the two NVDA headlines
NvdaScenario ==
    \E list \in {<<NvdaFirst, NvdaSecond>>, <<NvdaSecond, NvdaFirst>>} :
        \E analyzed \in BOOLEAN :
            news_items = IF analyzed THEN WithAnalysis(WithUrls(list)) ELSE WithUrls(list)

\* --- the deduplicator on the news of one symbol, and on the scenario
InitDedup ==
    /\ op = "init"
    /\ (FetchedFrom(Articles) \/ NvdaScenario)
    /\ passed = <<>>
    /\ seen_groups = <<>>
    /\ returned = <<>>
    /\ grouped = <<>>
    /\ SimilarityIdle
    /\ GateIdle
    /\ LaterIdle
    /\ PipelineIdle

NextDedup == Deduplicate \/ DeduplicateAgain

SpecDedup == InitDedup /\ [][NextDedup]_vars

\* --- the deduplicator on records of several symbols, some without one
InitSymbols ==
    /\ op = "init"
    /\ FetchedFrom(SymbolArticles)
    /\ passed = <<>>
    /\ seen_groups = <<>>
    /\ returned = <<>>
    /\ grouped = <<>>
    /\ SimilarityIdle
    /\ GateIdle
    /\ LaterIdle
    /\ PipelineIdle

NextSymbols == Deduplicate \/ GroupBySymbol

SpecSymbols == InitSymbols /\ [][NextSymbols]_vars

\* --- the company-news gate on every analysis record
Urgencies == {"Immediate", "Hours", "Days", "Long-term"}

\* the top of the 0-10 impact scale
MaxScore == 10

\* the analysis dicts: impact_score and urgency each present or absent
Analyses ==
    {<<>>}
    \cup {[impact_score |-> n] : n \in 0..MaxScore}
    \cup {[urgency |-> u] : u \in Urgencies}
    \cup {[impact_score |-> n, urgency |-> u] : n \in 0..MaxScore, u \in Urgencies}

InitGate ==
    /\ op = "init"
    /\ impact_threshold \in 0..MaxScore
    /\ analysis \in Analyses
    /\ notify = FALSE
    /\ SimilarityIdle
    /\ DeduplicatorIdle
    /\ LaterIdle
    /\ PipelineIdle

NextGate == ShouldNotify

SpecGate == InitGate /\ [][NextGate]_vars

\* --- the macro gate on every analysis record, and the macro step of a
\* cycle on the events of one snapshot
RiskLevels == {"Low", "Medium", "High"}

\* the analysis dicts of a macro event: each of the three keys the gate
\* reads present or absent
MacroAnalyses ==
    {[k \in keys |-> full[k]] :
        keys \in SUBSET {"impact_score", "urgency", "risk_level"},
        full \in [impact_score : 0..MaxScore, urgency : Urgencies,
                  risk_level : RiskLevels]}

\* what analyze_macro_impact returns for the events of a snapshot: scores
\* around the floor and the baseline, or the record it returns when the
\* AI call fails
MacroFallback == [impact_score |-> 6, urgency |-> "Hours", risk_level |-> "Medium"]

SnapshotAnalyses ==
    [impact_score : {7, 8}, urgency : {"Hours", "Days"}, risk_level : {"High", "Medium"}]
        \cup {MacroFallback}

\* the events of a snapshot, told apart by their position
MacroEvents(analyses) ==
    [i \in 1..Len(analyses) |->
        [event |-> [type |-> "macro", id |-> i], analysis |-> analyses[i]]]

InitMacro ==
    /\ op = "init"
    /\ \/ /\ impact_threshold \in 0..MaxScore
          /\ analysis \in MacroAnalyses
          /\ high_impact_macro = <<>>
       \/ /\ impact_threshold = 6
          /\ analysis = <<>>
          /\ \E n \in 1..MaxItems : \E analyses \in [1..n -> SnapshotAnalyses] :
                 high_impact_macro = MacroEvents(analyses)
    /\ notify = FALSE
    /\ macro_notify = FALSE
    /\ analyzed_macro_events = <<>>
    /\ SimilarityIdle
    /\ DeduplicatorIdle
    /\ DigestIdle
    /\ BrokerIdle
    /\ AnalyzerIdle
    /\ PipelineIdle

NextMacro == ShouldNotify \/ ShouldNotifyMacro \/ ProcessMacroEvents

SpecMacro == InitMacro /\ [][NextMacro]_vars

\* --- the digest of a batch of items that passed their gates
\* the three kinds of item main.py collects, the k-th of a batch
MacroAlert(urgency, k) ==
    [event |-> [type |-> "macro", id |-> k],
     analysis |-> [impact_score |-> 8, urgency |-> urgency, risk_level |-> "High"],
     timestamp |-> None]

NewsAlert(urgency, k) ==
    [symbol |-> "AAPL", title |-> <<"t">>,
     analysis |-> [impact_score |-> 8, urgency |-> urgency],
     article_id |-> k]

AnalystAlert(type, urgency, k) ==
    [symbol |-> "AAPL", type |-> type, data |-> [id |-> k],
     analysis |-> [impact_score |-> 8, urgency |-> urgency],
     published_date |-> None]

DigestUrgencies == {"Immediate", "Hours", "Days"}

\* the kinds of item of a batch: its category (for an analyst update, its
\* type) and the urgency of its analysis
AlertKinds ==
    ({"macro", "news", "price_target"} \X DigestUrgencies)
        \cup {<<"rating_change", "Days">>}

Alert(kind, k) ==
    IF kind[1] = "macro" THEN MacroAlert(kind[2], k)
    ELSE IF kind[1] = "news" THEN NewsAlert(kind[2], k)
    ELSE AnalystAlert(kind[1], kind[2], k)

InitDigest ==
    /\ op = "init"
    /\ \E n \in 0..MaxItems : \E kinds \in [1..n -> AlertKinds] :
           all_alerts = [k \in 1..n |-> Alert(kinds[k], k)]
    /\ html = <<>>
    /\ SimilarityIdle
    /\ DeduplicatorIdle
    /\ GateIdle
    /\ MacroIdle
    /\ BrokerIdle
    /\ AnalyzerIdle
    /\ PipelineIdle

NextDigest == FormatNotificationEmail

SpecDigest == InitDigest /\ [][NextDigest]_vars

\* --- the scorers on the rating changes and target changes of one symbol
\* grades as brokers publish them
Grades ==
    {<<"S", "t", "r", "o", "n", "g", " ", "B", "u", "y">>,
     <<"B", "u", "y">>,
     <<"O", "u", "t", "p", "e", "r", "f", "o", "r", "m">>,
     <<"O", "v", "e", "r", "w", "e", "i", "g", "h", "t">>,
     <<"H", "o", "l", "d">>,
     <<"U", "n", "d", "e", "r", "w", "e", "i", "g", "h", "t">>,
     <<"S", "e", "l", "l">>,
     <<"N", "/", "A">>}

\* the action field: empty, or a verb in the provider's wording
ActionTexts ==
    {<<>>,
     <<"U", "p", "g", "r", "a", "d", "e">>,
     <<"d", "o", "w", "n", "g", "r", "a", "d", "e">>,
     <<"I", "n", "i", "t", "i", "a", "t", "e", "s">>,
     <<"r", "e", "s", "t", "a", "r", "t">>,
     <<"R", "e", "i", "t", "e", "r", "a", "t", "e", "s">>,
     <<"m", "a", "i", "n", "t", "a", "i", "n">>,
     <<"h", "o", "l", "d">>}

\* analyst companies: two of the premium list (one in capitals), two
\* others, and the default of a record that names none
Brokers ==
    {<<"G", "o", "l", "d", "m", "a", "n", " ", "S", "a", "c", "h", "s">>,
     <<"J", "P", "M", "O", "R", "G", "A", "N">>,
     <<"C", "i", "t", "i", "z", "e", "n", "s", " ", "J", "M", "P">>,
     <<"A", "c", "m", "e", " ", "R", "e", "s", "e", "a", "r", "c", "h">>,
     UnknownBroker}

\* the rating changes: an action text and the two grades, each grade
\* present or missing
RatingChanges ==
    {[k \in keys |-> full[k]] :
        keys \in {{"action", "previousGrade", "newGrade"},
                  {"action", "newGrade"},
                  {"action", "previousGrade"}},
        full \in [action : ActionTexts, previousGrade : Grades, newGrade : Grades]}

InitBroker ==
    /\ op = "init"
    /\ broker \in Brokers
    /\ is_portfolio \in BOOLEAN
    /\ \/ rating \in RatingChanges /\ change_pct = 0
       \/ rating = <<>> /\ change_pct \in (-MaxChangePct)..MaxChangePct
    /\ action_type = ""
    /\ score = 0
    /\ SimilarityIdle
    /\ DeduplicatorIdle
    /\ GateIdle
    /\ MacroIdle
    /\ DigestIdle
    /\ AnalyzerIdle
    /\ PipelineIdle

NextBroker == DetermineActionType \/ CalculateRatingChangeScore \/ CalculateTargetScore

SpecBroker == InitBroker /\ [][NextBroker]_vars

\* --- the news analysis of one article, with or without a cache, whatever
\* the AI request does
\* the article, with a title, with an empty one and with none
NewsItems ==
    LET item == [symbol |-> "AAPL", url |-> <<"u", "1">>, text |-> <<"b", "o", "d", "y">>, site |-> <<"R", "e", "u", "t", "e", "r", "s">>]
    IN  {SetKey(item, "title", <<"A", "p", "p", "l", "e", " ", "b", "e", "a", "t", "s">>), SetKey(item, "title", <<>>), item}

\* analyses the AI returns: every key of the prompt, or one key only, or
\* none
FullAnalysis ==
    [impact_score |-> 8, sentiment |-> -1, urgency |-> "Hours",
     category |-> "Earnings", summary |-> <<"A", "p", "p", "l", "e", " ", "b", "e", "a", "t", "s">>, keywords |-> "earnings, guidance",
     affected_sector |-> "Technology"]

PartialAnalysis == [impact_score |-> 7]

\* what the AI request does: it raises, or it returns a message without
\* content, or one whose text is not a JSON object ...
FailingResponses ==
    {[raises |-> TRUE], [content |-> <<>>]}
        \cup {[content |-> <<text>>] :
                 text \in {<<>>,
                           <<Prose>>,
                           <<Prose, Blank, JsonObject(FullAnalysis)>>,
                           <<FenceJson, Fence>>,
                           <<JsonArray>>}}

\* ... or one whose text is a JSON object, bare or in a code fence
ParsableResponses ==
    {[content |-> <<text>>] :
        text \in {<<JsonObject(FullAnalysis)>>,
                  <<Blank, JsonObject(PartialAnalysis), Blank>>,
                  <<FenceJson, Blank, JsonObject(FullAnalysis), Blank, Fence>>,
                  <<Fence, JsonObject(PartialAnalysis), Fence>>}}

\* what the cache holds before the call: nothing, an analysis of the
\* article, a text that does not parse, or an analysis of another article
Caches ==
    {<<>>,
     SetKey(<<>>, <<"a", "n", "a", "l", "y", "s", "i", "s", ":", "u", "1">>, JsonDumps(FullAnalysis)),
     SetKey(<<>>, <<"a", "n", "a", "l", "y", "s", "i", "s", ":", "u", "1">>, <<Prose>>),
     SetKey(<<>>, <<"a", "n", "a", "l", "y", "s", "i", "s", ":", "u", "2">>, JsonDumps(PartialAnalysis))}

InitAnalyzer ==
    /\ op = "init"
    /\ news_item \in NewsItems
    /\ redis_client \in {None, "client"}
    /\ cache \in Caches
    /\ ai_response \in FailingResponses \cup ParsableResponses
    /\ ai_called = FALSE
    /\ raised = FALSE
    /\ analysis_result = <<>>
    /\ SimilarityIdle
    /\ DeduplicatorIdle
    /\ GateIdle
    /\ MacroIdle
    /\ DigestIdle
    /\ BrokerIdle
    /\ PipelineIdle

NextAnalyzer == AnalyzeNewsImpact \/ AnalyzeNewsImpactAsync

SpecAnalyzer == InitAnalyzer /\ [][NextAnalyzer]_vars

\* --- a batch of news items analyzed in one call, sequentially or by
\* parallel tasks
\* the most items in a batch
MaxTasks == 3

\* an article with a URL and two articles the feed delivered without one
BatchItems ==
    {[symbol |-> "AAPL", title |-> <<"A", "p", "p", "l", "e", " ", "b", "e", "a", "t", "s">>, url |-> <<"u", "1">>],
     [symbol |-> "MSFT", title |-> <<"c", "l", "o", "u", "d">>],
     [symbol |-> "TSLA", title |-> <<"r", "e", "c", "a", "l", "l">>]}

\* what the AI returns for a request: a full analysis, a partial one, or
\* an error
BatchResponses ==
    {[content |-> <<<<JsonObject(FullAnalysis)>>>>],
     [content |-> <<<<FenceJson, JsonObject(PartialAnalysis), Fence>>>>],
     [raises |-> TRUE]}

InitBatch ==
    /\ op = "init"
    /\ \E n \in 0..MaxTasks :
           /\ news_items \in [1..n -> BatchItems]
           /\ responses \in [1..n -> BatchResponses]
    /\ passed = news_items
    /\ redis_client \in {None, "client"}
    /\ cache \in {<<>>, SetKey(<<>>, <<"a", "n", "a", "l", "y", "s", "i", "s", ":", "u", "1">>, JsonDumps(PartialAnalysis))}
    /\ cache_at_call = cache
    /\ tasks = <<>>
    /\ results = <<>>
    /\ seen_groups = <<>>
    /\ returned = <<>>
    /\ grouped = <<>>
    /\ news_item = <<>>
    /\ ai_response = <<>>
    /\ ai_called = FALSE
    /\ raised = FALSE
    /\ analysis_result = <<>>
    /\ SimilarityIdle
    /\ GateIdle
    /\ MacroIdle
    /\ DigestIdle
    /\ BrokerIdle
    /\ CycleIdle
    /\ FetchIdle
    /\ RatingIdle

NextBatch == BatchAnalyze \/ BatchAnalyzeAsync \/ StartTask \/ CompleteTask \/ GatherReturn

SpecBatch == InitBatch /\ [][NextBatch]_vars

\* --- one monitoring cycle over the users of the database
\* the most users in the table
MaxUsers == 2

\* a user with a holding, one without, and one who is not active
UserRows ==
    {[active |-> TRUE, symbols |-> <<"NVDA">>],
     [active |-> TRUE, symbols |-> <<>>],
     [active |-> FALSE, symbols |-> <<"NVDA">>]}

UserTables ==
    UNION {{[i \in 1..n |-> SetKey(rows[i], "id", i)] : rows \in [1..n -> UserRows]} :
              n \in 0..MaxUsers}

\* the record each analyzer returns when its AI call fails
PriceTargetFallback ==
    [impact_score |-> 6, sentiment |-> 1, urgency |-> "Hours",
     category |-> "Analyst Price Target"]
RatingChangeFallback ==
    [impact_score |-> 7, sentiment |-> -1, urgency |-> "Hours",
     category |-> "Analyst Rating Change"]
NewsFallback == FallbackRecord(NvdaFirst)

\* an analyst update as batch_analyze_analyst_updates returns it
AnalystUpdate(type, a) ==
    [symbol |-> "NVDA", type |-> type, data |-> <<>>, analysis |-> a,
     published_date |-> <<"1", "0">>]

\* the macro events of a snapshot with their analyses: none, one the gate
\* accepts, one whose analysis failed
MacroFeeds ==
    {<<>>,
     MacroEvents(<<[impact_score |-> 8, urgency |-> "Days", risk_level |-> "Medium"]>>),
     MacroEvents(<<MacroFallback>>)}

\* the news of the holding: none, or the two reports of one event
NewsFeeds == {<<>>, WithUrls(<<NvdaFirst, NvdaSecond>>)}

\* what the AI analyzer returns for an article: a high score, or the record
\* of a failed call
NewsVerdicts == {[impact_score |-> 8, sentiment |-> 1, urgency |-> "Days"], NewsFallback}

\* the analyst updates: none, a significant one, or one whose analysis failed
AnalystFeeds ==
    {<<>>,
     <<AnalystUpdate("rating_change", [impact_score |-> 9, urgency |-> "Days"])>>,
     <<AnalystUpdate("price_target", PriceTargetFallback)>>,
     <<AnalystUpdate("rating_change", RatingChangeFallback)>>}

Feeds ==
    [macro : MacroFeeds, news : NewsFeeds,
     ai : [{<<"u", "1">>, <<"u", "2">>} -> NewsVerdicts],
     analyst : AnalystFeeds, db_ok : BOOLEAN, has_upgrades : BOOLEAN,
     smtp_ok : BOOLEAN]

NoOutcome ==
    [user |-> 0, raised |-> "", stages |-> <<>>, macro |-> <<>>, news |-> <<>>,
     analyst |-> <<>>, sent |-> <<>>, rows |-> <<>>]

\* the users the query of run_monitoring_cycle returns
ActiveUsers ==
    LET Active(user) == user.active
    IN  SelectSeq(user_table, Active)

\* run_monitoring_cycle up to its loop: a session is opened and the active
\* users are queried; if the query raises, the outer except and the finally
\* clause end the cycle
RunMonitoringCycle ==
    /\ op = "init"
    /\ cycle = "idle"
    /\ \E query_ok \in BOOLEAN :
           IF query_ok
           THEN /\ cycle' = "loop"
                /\ users' = ActiveUsers
                /\ db_open' = TRUE
           ELSE /\ cycle' = "closed"
                /\ users' = <<>>
                /\ db_open' = FALSE
    /\ cursor' = 1
    /\ op' = "run_monitoring_cycle"
    /\ UNCHANGED <<similarityVars, dedupVars, gateVars, laterVars, batchVars,
                   user_table, processed, outcome, sent, notifications>>
    /\ UNCHANGED fetchVars
    /\ UNCHANGED ratingVars

\* one turn of the loop: process_user_portfolio(db, user) inside its try
ProcessUserPortfolio ==
    /\ cycle = "loop"
    /\ cursor <= Len(users)
    /\ \E feed \in Feeds :
           LET out == process_user_portfolio(users[cursor], feed)
           IN  /\ outcome' = out
               /\ sent' = sent \o out.sent
               /\ notifications' = notifications \o out.rows
               /\ cursor' = AfterUser(cursor, out.raised)
    /\ processed' = Append(processed, users[cursor].id)
    /\ op' = "process_user_portfolio"
    /\ UNCHANGED <<similarityVars, dedupVars, gateVars, laterVars, batchVars,
                   user_table, users, cycle, db_open>>
    /\ UNCHANGED fetchVars
    /\ UNCHANGED ratingVars

\* the loop is over: the finally clause closes the session
CloseSession ==
    /\ cycle = "loop"
    /\ cursor > Len(users)
    /\ cycle' = "closed"
    /\ db_open' = FALSE
    /\ op' = "db.close"
    /\ UNCHANGED <<similarityVars, dedupVars, gateVars, laterVars, batchVars,
                   user_table, users, cursor, processed, outcome, sent, notifications>>
    /\ UNCHANGED fetchVars
    /\ UNCHANGED ratingVars

InitCycle ==
    /\ op = "init"
    /\ user_table \in UserTables
    /\ users = <<>>
    /\ cycle = "idle"
    /\ cursor = 1
    /\ db_open = FALSE
    /\ processed = <<>>
    /\ outcome = NoOutcome
    /\ sent = <<>>
    /\ notifications = <<>>
    /\ SimilarityIdle
    /\ DeduplicatorIdle
    /\ GateIdle
    /\ LaterIdle
    /\ BatchIdle
    /\ FetchIdle
    /\ RatingIdle

NextCycle == RunMonitoringCycle \/ ProcessUserPortfolio \/ CloseSession

SpecCycle == InitCycle /\ [][NextCycle]_vars

\* the cycle is one call on one thread: as long as it has a step to take, it
\* takes it
SpecCycleFair == SpecCycle /\ WF_vars(NextCycle)

\* --- the news of a portfolio as the provider delivers them
\* a publishedDate in the format of the feed, h hours old
DateAgo(h) == [format |-> "ymd_hms", age |-> h]

\* a date in another format (2024-01-15T10:30:00Z)
IsoDate == [format |-> "iso", age |-> 2]

FeedItem(site, url, title, date) ==
    [symbol |-> "NVDA", site |-> site, url |-> url, title |-> title,
     text |-> <<>>, publishedDate |-> date]

\* the items of a response: a recent report, the same report with a date
\* that does not parse, one with no date, one a day and a half old, one of a
\* blocked source, a reprint under the url of the first, one without url
FeedItems ==
    {FeedItem(<<"r", "e", "u", "t", "e", "r", "s", ".", "c", "o", "m">>, <<"r", "e", "u", "t", "e", "r", "s", ".", "c", "o", "m", "/", "a">>,
              <<"N", "v", "i", "d", "i", "a", " ", "r", "e", "p", "o", "r", "t", "s", " ", "r", "e", "c", "o", "r", "d", " ", "r", "e", "v", "e", "n", "u", "e">>, DateAgo(2)),
     FeedItem(<<"c", "n", "b", "c", ".", "c", "o", "m">>, <<"c", "n", "b", "c", ".", "c", "o", "m", "/", "b">>,
              <<"N", "v", "i", "d", "i", "a", " ", "r", "e", "p", "o", "r", "t", "s", " ", "r", "e", "c", "o", "r", "d", " ", "r", "e", "v", "e", "n", "u", "e">>, IsoDate),
     [symbol |-> "NVDA", site |-> <<"w", "s", "j", ".", "c", "o", "m">>, url |-> <<"w", "s", "j", ".", "c", "o", "m", "/", "c">>,
      title |-> <<"N", "v", "i", "d", "i", "a", " ", "a", "n", "n", "o", "u", "n", "c", "e", "d", " ", "m", "e", "r", "g", "e", "r">>, text |-> <<>>],
     FeedItem(<<"f", "t", ".", "c", "o", "m">>, <<"f", "t", ".", "c", "o", "m", "/", "d">>,
              <<"N", "v", "i", "d", "i", "a", " ", "g", "u", "i", "d", "a", "n", "c", "e", " ", "r", "a", "i", "s", "e", "d">>, DateAgo(36)),
     FeedItem(<<"b", "e", "n", "z", "i", "n", "g", "a", ".", "c", "o", "m">>, <<"b", "e", "n", "z", "i", "n", "g", "a", ".", "c", "o", "m", "/", "e">>,
              <<"N", "v", "i", "d", "i", "a", " ", "e", "a", "r", "n", "i", "n", "g", "s">>, DateAgo(2)),
     FeedItem(<<"c", "n", "b", "c", ".", "c", "o", "m">>, <<"r", "e", "u", "t", "e", "r", "s", ".", "c", "o", "m", "/", "a">>,
              <<"N", "v", "i", "d", "i", "a", " ", "p", "r", "o", "f", "i", "t", " ", "u", "p">>, DateAgo(3)),
     [symbol |-> "NVDA", site |-> <<"w", "s", "j", ".", "c", "o", "m">>,
      title |-> <<"N", "v", "i", "d", "i", "a", " ", "f", "i", "l", "i", "n", "g">>, text |-> <<>>, publishedDate |-> DateAgo(1)]}

\* news = fmp.get_stock_news(tickers) on the response of the provider
GetStockNews ==
    /\ op = "init"
    /\ fetched' = [raises |-> "", unique_news |-> get_stock_news(api_news, 100)]
    /\ op' = "get_stock_news"
    /\ UNCHANGED <<similarityVars, dedupVars, gateVars, laterVars, batchVars,
                   cycleVars, api_news>>
    /\ UNCHANGED ratingVars

\* recent = fmp.filter_recent_news(news_items) with the configured look-back
\* of 24 hours
FilterRecentNews ==
    /\ op = "init"
    /\ LET recent == filter_recent_news(api_news, 24)
       IN  fetched' = [raises |-> recent.raises, unique_news |-> recent.filtered]
    /\ op' = "filter_recent_news"
    /\ UNCHANGED <<similarityVars, dedupVars, gateVars, laterVars, batchVars,
                   cycleVars, api_news>>
    /\ UNCHANGED ratingVars

\* news_items = fmp.get_portfolio_news(symbols, hours=24): what main.py
\* hands to deduplicate
GetPortfolioNews ==
    /\ op = "init"
    /\ fetched' = get_portfolio_news(api_news, 24)
    /\ op' = "get_portfolio_news"
    /\ UNCHANGED <<similarityVars, dedupVars, gateVars, laterVars, batchVars,
                   cycleVars, api_news>>
    /\ UNCHANGED ratingVars

InitFetch ==
    /\ op = "init"
    /\ \E n \in 0..MaxItems : api_news \in [1..n -> FeedItems]
    /\ fetched = [raises |-> "", unique_news |-> <<>>]
    /\ SimilarityIdle
    /\ DeduplicatorIdle
    /\ GateIdle
    /\ LaterIdle
    /\ BatchIdle
    /\ CycleIdle
    /\ RatingIdle

NextFetch == GetStockNews \/ FilterRecentNews \/ GetPortfolioNews

SpecFetch == InitFetch /\ [][NextFetch]_vars

\* --- the rating feed called several times within the hour
\* the most calls in the hour
MaxCalls == 2

\* a change published h hours ago
RatingEntry(company, action, previous, new, h) ==
    [analystCompany |-> company, action |-> action, previousGrade |-> previous,
     newGrade |-> new, publishedDate |-> DateAgo(h)]

TargetEntry(company, posted, target, h) ==
    [analystCompany |-> company, priceWhenPosted |-> posted, priceTarget |-> target,
     publishedDate |-> DateAgo(h)]

GoldmanSachs == <<"G", "o", "l", "d", "m", "a", "n", " ", "S", "a", "c", "h", "s">>
AcmeResearch == <<"A", "c", "m", "e", " ", "R", "e", "s", "e", "a", "r", "c", "h">>

AnalystData(rating_changes, price_targets) ==
    [price_targets |-> price_targets, rating_changes |-> rating_changes]

\* what the provider has: for two symbols of the watchlist and one outside
\* it, nothing, or one change; no two changes of a feed share a time
AnalystFeedsBySymbol ==
    [AAPL : {AnalystData(<<>>, <<>>),
             AnalystData(<<RatingEntry(GoldmanSachs, <<"U", "p", "g", "r", "a", "d", "e">>,
                                       <<"H", "o", "l", "d">>, <<"B", "u", "y">>, 1)>>, <<>>),
             AnalystData(<<RatingEntry(AcmeResearch, <<"d", "o", "w", "n", "g", "r", "a", "d", "e">>,
                                       <<"B", "u", "y">>, <<"S", "e", "l", "l">>, 1)>>, <<>>)},
     MSFT : {AnalystData(<<>>, <<>>),
             AnalystData(<<>>, <<TargetEntry(GoldmanSachs, 100, 120, 2)>>),
             AnalystData(<<RatingEntry(AcmeResearch, <<"U", "p", "g", "r", "a", "d", "e">>,
                                       <<"H", "o", "l", "d">>, <<"B", "u", "y">>, 100)>>, <<>>)},
     SHOP : {AnalystData(<<>>, <<>>),
             AnalystData(<<RatingEntry(AcmeResearch, <<"I", "n", "i", "t", "i", "a", "t", "e", "s">>,
                                       NotAvailable, <<"B", "u", "y">>, 3)>>, <<>>),
             AnalystData(<<>>, <<TargetEntry(AcmeResearch, 100, 85, 3)>>)}]

\* the portfolios of the users
Portfolios == {<<>>, <<"AAPL">>, <<"MSFT">>, <<"SHOP">>, <<"AAPL", "SHOP">>}

\* get_recent_rating_changes(portfolio_symbols) with the default 72 hours,
\* on the service with the cache and, for reference, on one whose
\* redis_client is None
GetRecentRatingChanges ==
    /\ Len(rating_calls) < MaxCalls
    /\ \E portfolio_symbols \in Portfolios :
           LET out == get_recent_rating_changes(portfolio_symbols, "client", ratings_cache,
                                                analyst_data, 72)
               plain == get_recent_rating_changes(portfolio_symbols, None, <<>>,
                                                  analyst_data, 72)
           IN  /\ ratings_cache' = out.store
               /\ rating_calls' = Append(rating_calls,
                                         [portfolio_symbols |-> portfolio_symbols,
                                          hours |-> 72,
                                          result |-> out.result,
                                          uncached |-> plain.result])
    /\ op' = "get_recent_rating_changes"
    /\ UNCHANGED <<similarityVars, dedupVars, gateVars, laterVars, batchVars,
                   cycleVars, fetchVars, analyst_data>>

\* get_recent_upgrades(symbols, hours=168) as main.py calls it: the same
\* call with the look-back of a week
GetRecentUpgrades ==
    /\ Len(rating_calls) < MaxCalls
    /\ \E portfolio_symbols \in Portfolios :
           LET out == get_recent_rating_changes(portfolio_symbols, "client", ratings_cache,
                                                analyst_data, 168)
               plain == get_recent_rating_changes(portfolio_symbols, None, <<>>,
                                                  analyst_data, 168)
           IN  /\ ratings_cache' = out.store
               /\ rating_calls' = Append(rating_calls,
                                         [portfolio_symbols |-> portfolio_symbols,
                                          hours |-> 168,
                                          result |-> out.result,
                                          uncached |-> plain.result])
    /\ op' = "get_recent_upgrades"
    /\ UNCHANGED <<similarityVars, dedupVars, gateVars, laterVars, batchVars,
                   cycleVars, fetchVars, analyst_data>>

InitRatings ==
    /\ op = "init"
    /\ analyst_data \in AnalystFeedsBySymbol
    /\ ratings_cache = <<>>
    /\ rating_calls = <<>>
    /\ SimilarityIdle
    /\ DeduplicatorIdle
    /\ GateIdle
    /\ LaterIdle
    /\ BatchIdle
    /\ CycleIdle
    /\ FetchIdle

NextRatings == GetRecentRatingChanges \/ GetRecentUpgrades

SpecRatings == InitRatings /\ [][NextRatings]_vars

(***************************************************************************)
(* Properties.  In a state reached by a deduplicator call, passed is the   *)
(* list handed in, seen_groups the groups as positions of passed, and      *)
(* returned (or grouped) what the call returned.                           *)
(***************************************************************************)
AfterDeduplicate == op \in {"deduplicate", "deduplicate_again"}

\* the positions of passed
Pos == 1..Len(passed)

\* the members of group i, as a set of positions
Members(i) == {seen_groups[i][m] : m \in 1..Len(seen_groups[i])}

\* the position of passed whose item came back as returned[i]: items are
\* told apart by their url
Kept(i) == CHOOSE k \in Pos : passed[k].url = returned[i].url

\* position k was published after position m, or with it and ahead of it in
\* the list handed in
Ahead(k, m) ==
    \/ StrLess(passed[m].publishedDate, passed[k].publishedDate)
    \/ /\ passed[m].publishedDate = passed[k].publishedDate
       /\ k < m

\* the most recent member of group i, the earliest in the list among equals
Newest(i) == CHOOSE k \in Members(i) : \A m \in Members(i) \ {k} : Ahead(k, m)

\* C1: deduplicate is idempotent: a second call on the output of a first
\* call returns the same items in the same order.
DedupIdempotent == op = "deduplicate_again" => returned = passed

\* C2: symbol isolation: two items of one duplicate group never differ in
\* their symbol, whatever their titles and texts are.
SymbolIsolation ==
    op \in {"deduplicate", "group_by_symbol"} =>
        \A i \in 1..Len(seen_groups) : \A k, m \in Members(i) :
            Get(passed[k], "symbol", None) = Get(passed[m], "symbol", None)

\* C2 witness: the same headline under two symbols was deduplicated, and a
\* second item of one of the symbols was merged with its twin.
SymbolIsolationWitness ==
    /\ op = "deduplicate"
    /\ \E k, m \in Pos :
           /\ passed[k].title = passed[m].title
           /\ "symbol" \in DOMAIN passed[k]
           /\ "symbol" \in DOMAIN passed[m]
           /\ passed[k].symbol # passed[m].symbol
    /\ \E i \in 1..Len(seen_groups) : Len(seen_groups[i]) = 2

\* The rule of C3 for two items: Jaccard similarity of the title token sets
\* at least 0.6, or two non-empty keyword sets K1, K2 with
\* |K1 \cap K2| / max(|K1|, |K2|) >= 0.5.
TitleRule(n1, n2) ==
    LET A == TokensOf(n1.title)
        B == TokensOf(n2.title)
    IN  /\ A # {}
        /\ B # {}
        /\ 10 * Cardinality(A \cap B) >= 6 * Cardinality(A \cup B)

KeywordRule(n1, n2) ==
    LET K1 == EventsIn(Lower(n1.title \o <<" ">> \o n1.text))
        K2 == EventsIn(Lower(n2.title \o <<" ">> \o n2.text))
    IN  /\ K1 # {}
        /\ K2 # {}
        /\ \/ Cardinality(K1) >= Cardinality(K2)
              /\ 2 * Cardinality(K1 \cap K2) >= Cardinality(K1)
           \/ Cardinality(K2) >= Cardinality(K1)
              /\ 2 * Cardinality(K1 \cap K2) >= Cardinality(K2)

SameEvent(n1, n2) == TitleRule(n1, n2) \/ KeywordRule(n1, n2)

\* C3: two items of one symbol are judged the same event if and only if the
\* title rule or the keyword rule holds: every item that joined a group
\* satisfies the rule with the group's first member, no item satisfies it
\* with the first member of a group created before its own; and the two
\* NVDA headlines, whose title similarity is below 0.6, come back as one.
SameEventRule ==
    AfterDeduplicate =>
        /\ \A i \in 1..Len(seen_groups) : \A m \in 1..Len(seen_groups[i]) :
               LET k == seen_groups[i][m]
               IN  /\ \A j \in 1..(i - 1) :
                          passed[k].symbol = passed[seen_groups[j][1]].symbol
                              => ~SameEvent(passed[k], passed[seen_groups[j][1]])
                   /\ m > 1 => /\ passed[k].symbol = passed[seen_groups[i][1]].symbol
                               /\ SameEvent(passed[k], passed[seen_groups[i][1]])
        /\ (Len(passed) = 2 /\ passed[1].symbol = "NVDA")
               => /\ ~TitleRule(passed[1], passed[2])
                  /\ Len(returned) = 1

\* C3 witness: the two NVDA headlines were deduplicated into one item.
SameEventWitness ==
    /\ op = "deduplicate"
    /\ Len(passed) = 2
    /\ passed[1].symbol = "NVDA"
    /\ passed[1].title # passed[2].title
    /\ Len(returned) = 1

\* C4: deduplicate partitions its input: every position is in exactly one
\* group; the output has one item per group, a member of that group; and
\* the groups come in the order of their most recent members, newest
\* first, equal dates in input order.
DedupPartition ==
    AfterDeduplicate =>
        /\ \A k \in Pos :
               Cardinality({<<i, m>> \in (1..Len(seen_groups)) \X (1..Len(passed)) :
                               m <= Len(seen_groups[i]) /\ seen_groups[i][m] = k}) = 1
        /\ \A i \in 1..Len(seen_groups) : Members(i) \subseteq Pos
        /\ Len(returned) = Len(seen_groups)
        /\ Len(returned) <= Len(passed)
        /\ \A i \in 1..Len(returned) : Kept(i) \in Members(i)
        /\ \A i, j \in 1..Len(seen_groups) : i < j => Ahead(Newest(i), Newest(j))

\* C4 witness: three items in two groups, the kept item of the first group
\* not being its most recent member, and the two groups' most recent
\* members carrying the same date.
DedupPartitionWitness ==
    /\ op = "deduplicate"
    /\ Len(passed) = 3
    /\ Len(seen_groups) = 2
    /\ Kept(1) # Newest(1)
    /\ passed[Newest(1)].publishedDate = passed[Newest(2)].publishedDate

\* the source-quality rank of the sites of the model, whatever their case
RankOfSite(site) ==
    IF site = <<"R", "e", "u", "t", "e", "r", "s">> THEN 10
    ELSE IF site = <<"C", "N", "B", "C">> THEN 8
    ELSE 0

\* C5: the canonical item of a group of several members has the highest
\* source-quality rank of the group (looked up without regard to case, 0
\* for unknown sources), and is ahead, in the recency order, of every other
\* member of that rank.
CanonicalIsBestSource ==
    AfterDeduplicate =>
        \A i \in 1..Len(seen_groups) :
            Len(seen_groups[i]) > 1 =>
                \A m \in Members(i) \ {Kept(i)} :
                    \/ RankOfSite(passed[Kept(i)].site) > RankOfSite(passed[m].site)
                    \/ /\ RankOfSite(passed[Kept(i)].site) = RankOfSite(passed[m].site)
                       /\ Ahead(Kept(i), m)

\* C5 witness: a group of three in which an older ranked source was kept
\* over a more recent unranked one and over an equally ranked later one.
CanonicalIsBestSourceWitness ==
    /\ op = "deduplicate"
    /\ \E i \in 1..Len(seen_groups) :
           /\ Len(seen_groups[i]) = 3
           /\ \E m \in Members(i) :
                  /\ RankOfSite(passed[m].site) < RankOfSite(passed[Kept(i)].site)
                  /\ Ahead(m, Kept(i))
           /\ \E m \in Members(i) \ {Kept(i)} :
                  RankOfSite(passed[m].site) = RankOfSite(passed[Kept(i)].site)

\* the sites of the members of group i other than the kept one, in group
\* order
RECURSIVE SitesExcept(_, _)
SitesExcept(group, k) ==
    IF group = <<>> THEN <<>>
    ELSE (IF group[1] = k THEN <<>> ELSE <<passed[group[1]].site>>)
             \o SitesExcept(Tail(group), k)

\* C6: the canonical item of a group of several members carries the member
\* count of its group and the sites of up to 3 of the other members, for
\* every list the fetcher delivers, analyzed or not.
CanonicalCarriesSources ==
    op = "deduplicate" =>
        \A i \in 1..Len(seen_groups) :
            Len(seen_groups[i]) > 1 =>
                /\ "analysis" \in DOMAIN returned[i]
                /\ "sources_count" \in DOMAIN returned[i].analysis
                /\ returned[i].analysis.sources_count = Len(seen_groups[i])
                /\ "other_sources" \in DOMAIN returned[i].analysis
                /\ returned[i].analysis.other_sources
                       = Take(SitesExcept(seen_groups[i], Kept(i)), 3)


\* C6 witness: a list as the fetcher delivers it, with no analysis on its
\* items, was deduplicated and two of its items were merged.
UnanalyzedMerged ==
    /\ op = "deduplicate"
    /\ \E i \in 1..Len(seen_groups) :
           /\ Len(seen_groups[i]) > 1
           /\ "analysis" \notin DOMAIN returned[i]

\* the tokens each generated word must yield: none for the stop word, the
\* lower-case letter for either case and with the comma, both halves of the
\* hyphenated word
WordTokens(w) ==
    IF w = <<"a">> THEN {}
    ELSE IF w = <<"B">> THEN {<<"b">>}
    ELSE IF w = <<"b", ",">> THEN {<<"b">>}
    ELSE IF w = <<"c", "-", "d">> THEN {<<"c">>, <<"d">>}
    ELSE {w}

ExpectedTokens(title) == UNION {WordTokens(w) : w \in ToSet(Split(title))}

\* the generated headlines made of the same words as t, in any order
Reorderings ==
    [t \in Titles |->
        {u \in Titles :
            /\ Len(Split(u)) = Len(Split(t))
            /\ \A w \in RawWords :
                   Cardinality({i \in 1..Len(Split(u)) : Split(u)[i] = w})
                       = Cardinality({i \in 1..Len(Split(t)) : Split(t)[i] = w})}]

\* C7: title similarity is the Jaccard index of the two token sets: in
\* [0,1], symmetric, independent of word order, 1 exactly for equal
\* non-empty token sets, and 0.0 when either token set is empty.
SimilarityIsJaccard ==
    op = "_calculate_similarity" =>
        LET A == ExpectedTokens(title1)
            B == ExpectedTokens(title2)
        IN  /\ sim_result = IF A = {} \/ B = {} THEN <<0, 1>>
                            ELSE <<Cardinality(A \cap B), Cardinality(A \cup B)>>
            /\ 0 <= sim_result[1]
            /\ sim_result[1] <= sim_result[2]
            /\ sim_result[2] > 0
            /\ _calculate_similarity(title2, title1) = sim_result
            /\ \A t \in Reorderings[title1] : _calculate_similarity(t, title2) = sim_result
            /\ (sim_result[1] = sim_result[2]) <=> (A # {} /\ A = B)
            /\ (A = {} \/ B = {}) => sim_result[1] = 0

\* C7 witness: two headlines that are the same stop word were compared and
\* scored 0.0.
EmptyTitlesScoreZero ==
    /\ op = "_calculate_similarity"
    /\ title1 = <<"a">>
    /\ title2 = <<"a">>
    /\ sim_result = <<0, 1>>

\* C8: a missing symbol is treated as "UNKNOWN": an item without a symbol
\* and an item of symbol "UNKNOWN" with the same title are put in the same
\* duplicate group, in deduplicate and in group_by_symbol.
MissingSymbolIsUnknown ==
    op \in {"deduplicate", "group_by_symbol"} =>
        \A k, m \in Pos :
            (/\ "symbol" \notin DOMAIN passed[k]
             /\ Get(passed[m], "symbol", None) = "UNKNOWN"
             /\ passed[k].title = passed[m].title)
                => \E i \in 1..Len(seen_groups) : {k, m} \subseteq Members(i)

\* the fields of an analysis record as the gate reads them
ScoreOf(a) == IF "impact_score" \in DOMAIN a THEN a.impact_score ELSE 0
UrgencyOf(a) == IF "urgency" \in DOMAIN a THEN a.urgency ELSE "Days"
IsUrgent(a) == UrgencyOf(a) = "Immediate" \/ UrgencyOf(a) = "Hours"

\* C9: should_notify is true if and only if impact_score >= the configured
\* threshold, or urgency is Immediate or Hours and impact_score >= 4 (a
\* missing score counts as 0, a missing urgency as Days).
CompanyNewsGate ==
    op = "should_notify" =>
        /\ notify <=> (\/ ScoreOf(analysis) >= impact_threshold
                       \/ IsUrgent(analysis) /\ ScoreOf(analysis) >= 4)
        /\ (impact_threshold = 6 /\ analysis = [impact_score |-> 3, urgency |-> "Days"])
               => ~notify
        /\ analysis = [impact_score |-> 4, urgency |-> "Immediate"] => notify

\* C9 witness: with threshold 6, score 4 and urgency Immediate went through
\* the gate and passed.
UrgentFourAccepted ==
    /\ op = "should_notify"
    /\ impact_threshold = 6
    /\ analysis = [impact_score |-> 4, urgency |-> "Immediate"]
    /\ notify

\* C10 as stated: for every threshold t in 1..10 and every urgency,
\* should_notify is true at impact_score = t and false at t - 1.
ThresholdBoundary ==
    (op = "should_notify" /\ impact_threshold >= 1 /\ "impact_score" \in DOMAIN analysis) =>
        /\ analysis.impact_score = impact_threshold => notify
        /\ analysis.impact_score = impact_threshold - 1 => ~notify

\* C10 amended: for every threshold t in 1..10, should_notify is true at
\* impact_score = t for every urgency; at t - 1 it is false unless the
\* urgency is Immediate or Hours and t - 1 >= 4, and then it is true.
ThresholdBoundaryUrgentTier ==
    (op = "should_notify" /\ impact_threshold >= 1 /\ "impact_score" \in DOMAIN analysis) =>
        /\ analysis.impact_score = impact_threshold => notify
        /\ analysis.impact_score = impact_threshold - 1
               => (notify <=> (IsUrgent(analysis) /\ impact_threshold - 1 >= 4))

\* C10 witness: with threshold 6, score 5 was rejected at urgency Days.
OneBelowRejected ==
    /\ op = "should_notify"
    /\ impact_threshold = 6
    /\ analysis = [impact_score |-> 5, urgency |-> "Days"]
    /\ ~notify

\* the risk level of an analysis record as the macro gate reads it
RiskOf(a) == IF "risk_level" \in DOMAIN a THEN a.risk_level ELSE "Low"

\* C11: should_notify_macro is true if and only if impact_score >= 8, or
\* impact_score >= 7 and urgency is Immediate or Hours, or risk_level is High
\* and impact_score >= 7; so a High-risk event of score 7 or more passes
\* whatever its urgency, and every macro event kept for the notifier has
\* impact_score >= 7.
MacroGate ==
    /\ op = "should_notify_macro" =>
           /\ macro_notify <=> (\/ ScoreOf(analysis) >= 8
                                \/ ScoreOf(analysis) >= 7 /\ IsUrgent(analysis)
                                \/ RiskOf(analysis) = "High" /\ ScoreOf(analysis) >= 7)
           /\ (RiskOf(analysis) = "High" /\ ScoreOf(analysis) >= 7) => macro_notify
    /\ op = "process_macro_events" =>
           /\ \A i \in 1..Len(analyzed_macro_events) :
                  analyzed_macro_events[i].analysis.impact_score >= 7
           /\ \A k \in 1..Len(high_impact_macro) :
                  (\E i \in 1..Len(analyzed_macro_events) :
                       analyzed_macro_events[i].event = high_impact_macro[k].event)
                      <=> (\/ ScoreOf(high_impact_macro[k].analysis) >= 8
                           \/ /\ ScoreOf(high_impact_macro[k].analysis) >= 7
                              /\ \/ IsUrgent(high_impact_macro[k].analysis)
                                 \/ RiskOf(high_impact_macro[k].analysis) = "High")

\* C11 witness: a High-risk event of score 7 whose urgency is Long-term
\* went through the macro gate and passed.
HighRiskSevenAccepted ==
    /\ op = "should_notify_macro"
    /\ analysis = [impact_score |-> 7, urgency |-> "Long-term", risk_level |-> "High"]
    /\ macro_notify

\* C12: the macro gate is stricter than the company-news gate: whatever
\* the configured threshold in 0..10, a record the company-news gate has
\* just rejected is not accepted by the macro gate.
MacroGateStricter ==
    [][(op = "should_notify" /\ op' = "should_notify_macro") => (macro_notify' => notify)]_vars

\* the category of an item of a batch, with its rank in the precedence
\* macro, company news, analyst update
CategoryOf(item) ==
    IF "event" \in DOMAIN item THEN "macro"
    ELSE IF "type" \in DOMAIN item THEN "analyst"
    ELSE "news"

CategoryRank(item) ==
    IF CategoryOf(item) = "macro" THEN 1
    ELSE IF CategoryOf(item) = "news" THEN 2
    ELSE 3

IsUrgentItem(item) == item.analysis.urgency \in {"Immediate", "Hours"}

\* the items of the digest, in the order of their blocks
DigestItems == [i \in 1..Len(html) |-> html[i].item]

\* the items of a list that are in a bucket and of a category, in list order
InBucket(list, urgent, category) ==
    LET Test(item) == IsUrgentItem(item) = urgent /\ CategoryOf(item) = category
    IN  SelectSeq(list, Test)

\* C13: in the digest of a batch every urgent item precedes every normal
\* item; among the urgent items the macro events precede the company news,
\* which precede the analyst updates; and the items of one bucket and one
\* category come in the order in which the batch supplied them.
DigestOrdering ==
    op = "format_notification_email" =>
        /\ \A i, j \in 1..Len(html) :
               (IsUrgentItem(html[i].item) /\ ~IsUrgentItem(html[j].item)) => i < j
        /\ \A i, j \in 1..Len(html) :
               (/\ IsUrgentItem(html[i].item)
                /\ IsUrgentItem(html[j].item)
                /\ CategoryRank(html[i].item) < CategoryRank(html[j].item)) => i < j
        /\ \A urgent \in BOOLEAN : \A category \in {"macro", "news", "analyst"} :
               InBucket(DigestItems, urgent, category)
                   = InBucket(all_alerts, urgent, category)

\* C13 witness: a batch supplied as a normal analyst update, an urgent
\* company news and an urgent macro event was rendered, the macro event
\* first and the analyst update last.
MixedBatchRendered ==
    /\ op = "format_notification_email"
    /\ Len(all_alerts) = 3
    /\ CategoryOf(all_alerts[1]) = "analyst" /\ ~IsUrgentItem(all_alerts[1])
    /\ CategoryOf(all_alerts[2]) = "news" /\ IsUrgentItem(all_alerts[2])
    /\ CategoryOf(all_alerts[3]) = "macro" /\ IsUrgentItem(all_alerts[3])
    /\ DigestItems = <<all_alerts[3], all_alerts[2], all_alerts[1]>>

\* C14: among the normal items of the digest the macro events precede the
\* company news, which precede the analyst updates.
NormalBucketPrecedence ==
    op = "format_notification_email" =>
        \A i, j \in 1..Len(html) :
            (/\ ~IsUrgentItem(html[i].item)
             /\ ~IsUrgentItem(html[j].item)
             /\ CategoryRank(html[i].item) < CategoryRank(html[j].item)) => i < j

\* the broker's name is an entry of the premium list, whatever its case
OnAllowList(name) ==
    \E i \in 1..Len(premium_brokers) : Lower(premium_brokers[i]) = Lower(name)

\* C15: of two rating changes that differ in their broker only, the one
\* whose broker is on the premium list scores exactly 3.0 more than the one
\* whose broker is not.
PremiumBrokerBonus ==
    op = "_calculate_rating_change_score" =>
        \A other \in Brokers :
            (OnAllowList(broker) /\ ~OnAllowList(other)) =>
                score = _calculate_rating_change_score(rating, other, action_type,
                                                       is_portfolio) + 30

\* the grades of a scored rating change as the scorer reads them
PreviousGrade == Get(rating, "previousGrade", <<>>)
NewGrade == Get(rating, "newGrade", <<>>)

\* the weight of the action type and of the new grade in the score
ActionWeight(type) ==
    IF type = "downgrade" THEN 20
    ELSE IF type = "upgrade" THEN 15
    ELSE IF type = "initiated" THEN 10
    ELSE 0

NewGradeWeight(grade) ==
    IF grade = <<"S", "t", "r", "o", "n", "g", " ", "B", "u", "y">> THEN 20
    ELSE IF grade = <<"B", "u", "y">> \/ grade = <<"O", "u", "t", "p", "e", "r", "f", "o", "r", "m">> THEN 15
    ELSE IF grade = <<"S", "e", "l", "l">> THEN 20
    ELSE 0

\* the part of the score of a rating change that is left for the reversal
\* bonus
SwingPart ==
    score - 50
          - (IF is_portfolio THEN 30 ELSE 0)
          - (IF _is_premium_broker(broker) THEN 30 ELSE 0)
          - ActionWeight(action_type)
          - NewGradeWeight(NewGrade)

\* C16: a rating change from a bullish-class grade to a bearish-class grade,
\* or from a bearish-class to a bullish-class one, as _classify_rating
\* classifies them, has the reversal bonus of 3.0 in its score, and no other
\* rating change has it.
ReversalBonus ==
    op = "_calculate_rating_change_score" =>
        SwingPart = IF {_classify_rating(PreviousGrade), _classify_rating(NewGrade)}
                           = {"bullish", "bearish"}
                    THEN 30 ELSE 0

\* the extreme tiers and the routine ones
ExtremeGrades == {<<"S", "t", "r", "o", "n", "g", " ", "B", "u", "y">>, <<"S", "e", "l", "l">>}
RoutineGrades == {<<"B", "u", "y">>, <<"O", "u", "t", "p", "e", "r", "f", "o", "r", "m">>, <<"O", "v", "e", "r", "w", "e", "i", "g", "h", "t">>, <<"H", "o", "l", "d">>}

\* C17: a rating change to or from Strong Buy or Sell scores strictly more
\* than a rating change of the same broker, action field, action type and
\* portfolio membership whose two grades are routine tiers.
ExtremeRatingBonus ==
    (/\ op = "_calculate_rating_change_score"
     /\ DOMAIN rating = {"action", "previousGrade", "newGrade"}
     /\ (PreviousGrade \in ExtremeGrades \/ NewGrade \in ExtremeGrades)) =>
        \A previous \in RoutineGrades : \A new \in RoutineGrades :
            LET routine == [action |-> rating.action, previousGrade |-> previous,
                            newGrade |-> new]
            IN  _determine_action_type(rating.action, previous, new) = action_type
                    => score > _calculate_rating_change_score(routine, broker,
                                                              action_type, is_portfolio)

\* the magnitude bonus of a target change of pct percent
TierBonus(pct) ==
    IF pct >= 30 \/ pct <= -30 THEN 30
    ELSE IF pct >= 20 \/ pct <= -20 THEN 20
    ELSE IF pct >= 15 \/ pct <= -15 THEN 10
    ELSE 0

SameSign(a, b) == (a < 0 /\ b < 0) \/ (a = 0 /\ b = 0) \/ (a > 0 /\ b > 0)

\* C18: for a fixed broker, portfolio membership and sign, the score of a
\* target change never decreases as the magnitude of the change grows; the
\* magnitude adds 1.0 from 15, 2.0 from 20 and 3.0 from 30 percent; and a
\* lowered target scores exactly 1.0 more than a raised one of the same
\* magnitude.
TargetScoreMonotonic ==
    op = "_calculate_target_score" =>
        /\ \A pct \in (-MaxChangePct)..MaxChangePct :
               (SameSign(pct, change_pct) /\ Abs(pct) >= Abs(change_pct)) =>
                   _calculate_target_score(pct, broker, is_portfolio) >= score
        /\ score - TierBonus(change_pct)
               = _calculate_target_score(IF change_pct < 0 THEN -1 ELSE 0,
                                         broker, is_portfolio)
        /\ change_pct < 0 =>
               score = _calculate_target_score(-change_pct, broker, is_portfolio) + 10

\* C18 witness: a target lowered by 20 percent by a premium broker on a
\* portfolio symbol was scored 3.0 + 2.0 + 2.0 + 2.0 + 1.0.
TargetLoweredTwenty ==
    /\ op = "_calculate_target_score"
    /\ change_pct = -20
    /\ broker = <<"G", "o", "l", "d", "m", "a", "n", " ", "S", "a", "c", "h", "s">>
    /\ is_portfolio
    /\ score = 100

\* the action type an action text spells out, if any
KeywordOf(text) ==
    IF text = <<"U", "p", "g", "r", "a", "d", "e">> THEN "upgrade"
    ELSE IF text = <<"d", "o", "w", "n", "g", "r", "a", "d", "e">> THEN "downgrade"
    ELSE IF text = <<"I", "n", "i", "t", "i", "a", "t", "e", "s">> \/ text = <<"r", "e", "s", "t", "a", "r", "t">> THEN "initiated"
    ELSE IF text = <<"R", "e", "i", "t", "e", "r", "a", "t", "e", "s">> \/ text = <<"m", "a", "i", "n", "t", "a", "i", "n">> THEN "reiterated"
    ELSE ""

\* the rank of a grade's class in bearish < neutral < bullish, a grade of no
\* class ranked as neutral
GradeRank(grade) ==
    IF grade \in {<<"S", "t", "r", "o", "n", "g", " ", "B", "u", "y">>, <<"B", "u", "y">>, <<"O", "u", "t", "p", "e", "r", "f", "o", "r", "m">>, <<"O", "v", "e", "r", "w", "e", "i", "g", "h", "t">>} THEN 2
    ELSE IF grade \in {<<"U", "n", "d", "e", "r", "w", "e", "i", "g", "h", "t">>, <<"S", "e", "l", "l">>} THEN 0
    ELSE 1

\* C19: _determine_action_type returns upgrade, downgrade, initiated or
\* reiterated; a keyword in the action field decides whatever the grades
\* are; without one the result is upgrade if the new grade's class ranks
\* above the previous grade's, downgrade if below, reiterated if equal.
ActionTypeDerivation ==
    op = "_determine_action_type" =>
        LET keyword == KeywordOf(rating.action)
            old_rank == GradeRank(Get(rating, "previousGrade", NotAvailable))
            new_rank == GradeRank(Get(rating, "newGrade", NotAvailable))
        IN  /\ action_type \in {"upgrade", "downgrade", "initiated", "reiterated"}
            /\ keyword # "" => action_type = keyword
            /\ keyword = "" =>
                   action_type = IF new_rank > old_rank THEN "upgrade"
                                 ELSE IF new_rank < old_rank THEN "downgrade"
                                 ELSE "reiterated"

\* C19 witness: a change from a grade of no class to Sell, its action field
\* naming no action type, was found to be a downgrade.
UnclassifiedToSell ==
    /\ op = "_determine_action_type"
    /\ rating = [action |-> <<"h", "o", "l", "d">>, previousGrade |-> NotAvailable, newGrade |-> <<"S", "e", "l", "l">>]
    /\ action_type = "downgrade"

\* C20: when the AI request raises or its response is not a JSON object,
\* analyze_news_impact and analyze_news_impact_async do not raise, return
\* impact_score 5, sentiment 0 and urgency Days, and leave the cache as it
\* was.
NeutralFallback ==
    [][(/\ op = "init"
        /\ op' \in {"analyze_news_impact", "analyze_news_impact_async"}
        /\ ai_called'
        /\ ai_response \in FailingResponses)
           => /\ ~raised'
              /\ analysis_result'.impact_score = 5
              /\ analysis_result'.sentiment = 0
              /\ analysis_result'.urgency = "Days"
              /\ cache' = cache]_vars

\* C20 witness: with a cache client and an empty cache the awaited request
\* raised, the neutral record came back and the cache is still empty.
AsyncFallbackReturned ==
    /\ op = "analyze_news_impact_async"
    /\ redis_client = "client"
    /\ ai_called
    /\ ai_response = [raises |-> TRUE]
    /\ analysis_result.impact_score = 5
    /\ analysis_result.urgency = "Days"
    /\ cache = <<>>

\* what the sequential batch_analyze returns for the list, the cache and
\* the responses the batch call was made with
SequentialResults == batch_analyze(passed, redis_client, cache_at_call, responses).results

\* the analysis computed for item i of the batch
OwnAnalysis(i) ==
    analyze_news_impact(passed[i], redis_client, cache_at_call, responses[i],
                        FALSE, FALSE).result

\* C21: whatever order the analysis tasks complete in, batch_analyze_async
\* returns one element per input item, element i being input item i with
\* the analysis computed for item i, the same list batch_analyze returns
\* for the same responses, and the input list is as it was handed over.
BatchRejoin ==
    (op = "batch_analyze_async") =>
        /\ Len(results) = Len(passed)
        /\ \A i \in 1..Len(passed) :
               /\ results[i] = SetKey(passed[i], "analysis", results[i].analysis)
               /\ results[i].analysis = OwnAnalysis(i)
        /\ results = SequentialResults
        /\ news_items = passed

\* the user the last process_user_portfolio call was made for
ProcessedUser == CHOOSE user \in ToSet(users) : user.id = outcome.user

\* stage a comes before stage b in the log of the call
Before(a, b) ==
    \E i \in 1..Len(outcome.stages) : \E j \in (i + 1)..Len(outcome.stages) :
        outcome.stages[i] = a /\ outcome.stages[j] = b

\* the items of the call that passed their gates, in hand-off order
GatePassed == outcome.macro \o outcome.news \o outcome.analyst

\* C22: a call of process_user_portfolio for a user with a holding, in
\* which no collaborator failed, went through fetch, dedup, score, gate and
\* aggregate in that order, and if an item passed its gate send_email was
\* called once, for that user, with macro ++ news ++ analyst alerts.
PipelineHandOff ==
    (/\ op = "process_user_portfolio"
     /\ ProcessedUser.symbols # <<>>
     /\ outcome.raised # "DatabaseError")
        => /\ Before("fetch", "dedup")
           /\ Before("dedup", "score")
           /\ Before("score", "gate")
           /\ Before("gate", "aggregate")
           /\ GatePassed # <<>> =>
                  /\ Len(outcome.sent) = 1
                  /\ outcome.sent[1].to = outcome.user
                  /\ outcome.sent[1].alerts = GatePassed

\* the item's date is not a text of the feed's format
UnparsableDate(item) == Get(item, "publishedDate", EmptyDate).format # "ymd_hms"

\* the item comes from a source on the block list
FromBlockedSource(item) ==
    \/ Contains(Get(item, "site", <<>>), <<"b", "e", "n", "z", "i", "n", "g", "a", ".", "c", "o", "m">>)
    \/ Contains(Get(item, "url", <<>>), <<"b", "e", "n", "z", "i", "n", "g", "a", ".", "c", "o", "m">>)

\* the item at position i has a url no other item of the response has
UniqueUrl(i) ==
    /\ Get(api_news[i], "url", <<>>) # <<>>
    /\ \A j \in 1..Len(api_news) :
           j # i => Get(api_news[j], "url", <<>>) # Get(api_news[i], "url", <<>>)

\* C23: get_portfolio_news does not raise, and an item of the response
\* whose publishedDate does not parse, from a source that is not blocked
\* and with a url of its own, is in the list it returns for deduplicate.
UnparsableDateKept ==
    (op = "get_portfolio_news") =>
        /\ fetched.raises = ""
        /\ \A i \in 1..Len(api_news) :
               (/\ UnparsableDate(api_news[i])
                /\ ~FromBlockedSource(api_news[i])
                /\ UniqueUrl(i))
                   => api_news[i] \in ToSet(fetched.unique_news)

\* C24: deduplicate and group_by_symbol leave the list they were handed and
\* every field of every item of it, the analysis record included, as they
\* were; the gates are predicates of their argument and write nothing.
CoreSideEffectFree ==
    (op \in {"deduplicate", "group_by_symbol"}) => news_items = passed

\* --- the rating feed
\* what a comparison of two results looks at: per bucket and in order, the
\* symbol, broker, kind, score and portfolio flag of each entry
Entries(bucket) ==
    [i \in 1..Len(bucket) |->
        [symbol |-> bucket[i].symbol, broker |-> bucket[i].broker,
         action_type |-> bucket[i].action_type, score |-> bucket[i].score,
         is_portfolio |-> bucket[i].is_portfolio]]

SameResult(a, b) ==
    /\ Entries(a.portfolio_upgrades) = Entries(b.portfolio_upgrades)
    /\ Entries(a.portfolio_downgrades) = Entries(b.portfolio_downgrades)
    /\ Entries(a.market_upgrades) = Entries(b.market_upgrades)
    /\ Entries(a.market_downgrades) = Entries(b.market_downgrades)

\* C25: every call of the hour returns, with the cache, the entries, scores,
\* portfolio flags and four-way split it returns without one.
CacheTransparent ==
    \A i \in 1..Len(rating_calls) :
        SameResult(rating_calls[i].result, rating_calls[i].uncached)

\* --- the walk of deduplicate, step by step
\* sorted_news of the last call, as positions of the list handed in
WalkOrder == SortedOrder(passed, Positions(Len(passed)))

\* seen_groups after the first k items of sorted_news
GroupsAfter(k) == BuildGroups(passed, SubSeq(WalkOrder, 1, k), 1, <<>>)

\* every member but the first is similar to the first member of its group,
\* and no member is similar to the first member of an earlier group
FirstMemberGrouping(groups) ==
    \A g \in 1..Len(groups) : \A j \in 1..Len(groups[g]) :
        /\ j > 1 => _are_similar(passed[groups[g][j]], passed[groups[g][1]])
        /\ \A h \in 1..(g - 1) :
               ~_are_similar(passed[groups[g][j]], passed[groups[h][1]])

\* the groups hold exactly the given positions, each once
GroupsHold(groups, positions) ==
    /\ \A p \in positions : \E g \in 1..Len(groups) : \E j \in 1..Len(groups[g]) :
           groups[g][j] = p
    /\ \A g \in 1..Len(groups) : \A j \in 1..Len(groups[g]) :
           /\ groups[g][j] \in positions
           /\ \A h \in 1..Len(groups) : \A l \in 1..Len(groups[h]) :
                  groups[h][l] = groups[g][j] => (h = g /\ l = j)

\* C26: after every step of the walk of deduplicate the groups hold the
\* items walked so far, every non-first member is similar to the first
\* member of its group, and no item is similar to the first member of a
\* group created before its own: an item joins the first group whose first
\* member it matches and starts a new group when it matches none.
GroupingInvariant ==
    AfterDeduplicate =>
        /\ \A k \in 0..Len(passed) :
               /\ FirstMemberGrouping(GroupsAfter(k))
               /\ GroupsHold(GroupsAfter(k), ToSet(SubSeq(WalkOrder, 1, k)))
        /\ seen_groups = GroupsAfter(Len(passed))

\* a walk over three items in which the last item is similar to the second
\* member of the first group but not to its first member, and so starts a
\* group of its own
ComparedWithFirstOnly ==
    /\ op = "deduplicate"
    /\ Len(passed) = 3
    /\ Len(seen_groups) = 2
    /\ Len(seen_groups[1]) = 2
    /\ _are_similar(passed[seen_groups[2][1]], passed[seen_groups[1][2]])
    /\ ~_are_similar(passed[seen_groups[2][1]], passed[seen_groups[1][1]])

\* --- group_by_symbol against deduplicate
\* what deduplicate returns for the whole list handed to the last call
DeduplicatedWhole == UniqueNews(passed, GroupsAt(passed, Positions(Len(passed))))

\* C29: every list of the mapping group_by_symbol returns holds only items
\* of its key's symbol, and the lists together hold exactly the canonical
\* items deduplicate returns for the whole list.
GroupedAgreesWithDeduplicate ==
    op = "group_by_symbol" =>
        /\ \A key \in DOMAIN grouped : \A i \in 1..Len(grouped[key]) :
               SymbolKey(grouped[key][i]) = key
        /\ UNION {ToSet(grouped[key]) : key \in DOMAIN grouped} = ToSet(DeduplicatedWhole)

\* a list of two symbols in which one symbol's two reports were merged
\* into one canonical item
TwoSymbolsOneMerged ==
    /\ op = "group_by_symbol"
    /\ Len(passed) = 3
    /\ DOMAIN grouped = {"AAPL", "MSFT"}
    /\ Len(grouped["AAPL"]) = 1
    /\ Len(grouped["MSFT"]) = 1
    /\ Len(DeduplicatedWhole) = 2

\* --- the notification rows of a cycle
\* a send_email call of the cycle that returned true for the user and
\* carried the article among its alerts
SentTo(user_id, article_id) ==
    \E j \in 1..Len(sent) :
        /\ sent[j].success
        /\ sent[j].to = user_id
        /\ \E k \in 1..Len(sent[j].alerts) :
               Get(sent[j].alerts[k], "article_id", None) = article_id

CycleClosed ==
    /\ cycle = "closed"
    /\ ~db_open
    /\ processed = [i \in 1..Len(users) |-> users[i].id]

FallbackRecords == {NewsFallback, MacroFallback, PriceTargetFallback, RatingChangeFallback}

\* C30: with the default threshold 6, no item whose analysis is the record
\* of a failed AI call, be it company news, a macro event, a rating change
\* or a price target, passes its gate in process_user_portfolio.
FallbackNeverAlerts ==
    (op = "process_user_portfolio" /\ impact_threshold = 6) =>
        \A i \in 1..Len(GatePassed) : GatePassed[i].analysis \notin FallbackRecords

====
